---- MODULE Spec2Model ----
(***************************************************************************)
(* tap-escrow-manager: the reconciliation loop of src/main.rs, its tier    *)
(* ladder next_balance, the batch-cap reduction of the adjustments, and    *)
(* the debt aggregator of src/receipts.rs.                                 *)
(*                                                                         *)
(* Amounts.  The program counts money in wei (u128, GRT = 10^18 wei).      *)
(* TLC's integers are 32 bits wide, so an amount is the pair <<t, w>>      *)
(* standing for  t * 10^17 + w  wei: t tenths of a GRT plus a signed       *)
(* offset of w wei, with |w| far below 10^17.  Two amounts compare as      *)
(* their pairs compare lexicographically; sums and differences are taken   *)
(* componentwise.                                                          *)
(***************************************************************************)
EXTENDS Integers, Sequences, FiniteSets, TLC

(***************************************************************************)
(* Bounds of the model.                                                    *)
(***************************************************************************)
\* the ladder is exercised on the rungs 2^1 .. 2^(MaxRungExp+1) GRT
MaxRungExp == 14
\* number of reconciliation ticks of one run of the loop
MaxTicks == 2
\* receivers of an adjustment list drawn amount by amount
MaxListed == 3
\* receivers of the longest adjustment list, all wanting the same amount
MaxCrowd == 5051
\* capacity of the update channel (mpsc::channel(128) in the source)
MaxChannel == 2
\* updates taken by one recv_many (buffer_size = 128 in the source)
BufferSize == 2
\* realtime handlers running at once (for_each_concurrent(16, ..) in the source)
MaxInFlight == 2
\* rows of one page of a paginated query (batch_size = 200 in the source)
BatchSize == 2
\* blocks the subgraph's server comes to know during one paginated query
MaxHashes == 3
\* entries of config.signers
MaxSigners == 2
\* updates handed to the bucket map in one run of its arithmetic
MaxUpdates == 3
\* the last second of a run of the loop's timer
MaxInstant == 8
\* records a partition of the aggregated topic grows to during the drain
MaxRecords == 3
\* records of the gateway_ravs topic
MaxRavs == 3

(***************************************************************************)
(* Amount arithmetic (u128 wei as <<tenths, wei offset>>).                 *)
(***************************************************************************)
Amt(t, w) == <<t, w>>

Zero == Amt(0, 0)

\* a < b on u128
Lt(a, b) == a[1] < b[1] \/ (a[1] = b[1] /\ a[2] < b[2])

\* a <= b on u128
Le(a, b) == a = b \/ Lt(a, b)

\* a + b on u128 (the model's amounts stay far below 2^128)
Add(a, b) == Amt(a[1] + b[1], a[2] + b[2])

\* u128::max
Max(a, b) == IF Lt(a, b) THEN b ELSE a

\* u128::min
Min(a, b) == IF Lt(a, b) THEN a ELSE b

\* a plain subtraction that may leave the u128 range, the bug saturating_sub avoids
WrappingSub(a, b) == Amt(a[1] - b[1], a[2] - b[2])

\* u128::saturating_sub
saturating_sub(a, b) == IF Le(a, b) THEN Zero ELSE Amt(a[1] - b[1], a[2] - b[2])

\* n as u128 * GRT, for a count n of whole GRT
GrtTimes(n) == Amt(10 * n, 0)

GRT == GrtTimes(1)

MIN_DEPOSIT == GrtTimes(2)

Pow2(n) == 2 ^ n

(***************************************************************************)
(* u128 as f64: round to the nearest double, ties to even.                 *)
(*                                                                         *)
(* BinadeTenths[i] = floor(2^(56+i) / 10^17): an amount of t tenths        *)
(* (t >= 1) lies at or above 2^(56+i) wei exactly when t > BinadeTenths[i],*)
(* because no multiple of 10^17 is within 10^15 of a power of two here.    *)
(* A double in [2^k, 2^(k+1)) has unit in the last place 2^(k-52).         *)
(***************************************************************************)
BinadeTenths ==
  << 1, 2, 5, 11, 23, 46, 92, 184, 368, 737, 1475, 2951, 5902, 11805,
     23611, 47223, 94447, 188894, 377789, 755578, 1511157, 3022314,
     6044629, 12089258, 24178516, 48357032, 96714065, 193428131,
     386856262, 773712524, 1547425049 >>

\* number of binade starts 2^57, 2^58, ... at or below t tenths
BinadesBelow(t) == Cardinality({i \in DOMAIN BinadeTenths : t > BinadeTenths[i]})

\* unit in the last place, in wei, of a double near t tenths (t >= 1)
Ulp(t) == 16 * Pow2(BinadesBelow(t))

RECURSIVE PowMod(_, _, _)
\* b^n mod m
PowMod(b, n, m) == IF n = 0 THEN 1 % m ELSE (b * PowMod(b, n - 1, m)) % m

\* (t * 10^17) mod k for a power of two k: 10^17 = 2^17 * 5^17
TenthsMod(t, k) ==
  IF k <= Pow2(17) THEN 0
  ELSE LET m == k \div Pow2(17)
       IN  (((t % m) * PowMod(5, 17, m)) % m) * Pow2(17)

\* x rounded to the nearest multiple of u, a tie going to the multiple of 2u
RoundTiesEven(x, u) ==
  LET lo == (x \div u) * u
      r  == x - lo
  IN  IF 2 * r < u THEN lo
      ELSE IF 2 * r > u THEN lo + u
      ELSE IF lo % (2 * u) = 0 THEN lo ELSE lo + u

\* debt as f64: the double nearest to the amount, as an amount again
AsF64(a) ==
  IF a[1] = 0 THEN a  \* below 2^53 wei every integer is a double
  ELSE LET u    == Ulp(a[1])
           base == TenthsMod(a[1], 2 * u)
       IN  Amt(a[1], RoundTiesEven(base + a[2], u) - base)

\* (next_round as u128 * GRT) as f64 * 0.6.  next_round is a power of two
\* below the u32 saturation point: n * 10^18 is a double, and the product
\* with the double nearest 0.6 rounds to 0.6 * n * 10^18 exactly.
Threshold(next_round) == Amt(6 * next_round, 0)

(***************************************************************************)
(* The tier ladder.                                                        *)
(***************************************************************************)
\* u32::saturating_mul(2): u32::MAX = 65535 * 65537 is out of TLC's range and
\* is never evaluated, the model's debts keep next_round below 2^30
saturating_mul_2(n) == IF n > 2147483647 THEN 65535 * 65537 ELSE n * 2

RECURSIVE next_balance_loop(_, _)
next_balance_loop(debt, next_round) ==
  IF ~Lt(AsF64(debt), Threshold(next_round))
  THEN next_balance_loop(debt, saturating_mul_2(next_round))
  ELSE next_round

\* a ladder whose rung is narrowed to u8 before it is scaled
next_balance_u8(debt) == GrtTimes(next_balance_loop(debt, 2) % 256)

\* a ladder that starts one rung below MIN_DEPOSIT
next_balance_low(debt) == GrtTimes(next_balance_loop(debt, 1))

next_balance(debt) == GrtTimes(next_balance_loop(debt, 2))

(***************************************************************************)
(* State.                                                                  *)
(***************************************************************************)
VARIABLES
  \* the tier ladder applied to two debts
  debt_a, debt_b,      \* the debts next_balance is called with
  target_a, target_b,  \* what it returned, None before the call
  \* the batch-cap reduction
  reduce_pc,           \* "call", "loop", "return"
  reduce_input,        \* the adjustment list it is called with
  reduce_desired,      \* the input ordered by address
  reduce_out,          \* the list being built
  reduce_i,            \* the receiver visited next
  \* the reconciliation loop of main
  pc,                  \* where the loop stands
  ticks,               \* ticks started so far
  signal,              \* SIGINT or SIGTERM has been delivered
  config_debts,        \* config.debts: receiver -> minimum debt in whole GRT
  debts,               \* the value of the debts watch channel
  active,              \* what active_indexers returned in this tick
  receivers,           \* the local receivers
  escrow_accounts,     \* the local escrow_accounts: receiver -> balance
  borrowed,            \* the snapshot the tick borrowed from the channel
  adjustments,         \* the local adjustments, a list of <<receiver, amount>>
  tx,                  \* the depositMany call of this tick, None if there is none
  latest_block,        \* escrow_subgraph's block hint
  blocks,              \* the chain: blocks[n] = escrow balances at block n
  sigterm,             \* the sigterm stream holds a notification not yet received
  ctrl_c,              \* the ctrl_c() future of the current select! has been notified
  errors,              \* what tracing::error! has logged since the latest tick began
  read_block,          \* the block this tick's escrow_accounts were read at, 0 if none
  receipt_block,       \* the block number of the latest receipt, 0 if none
  settled,             \* the latest deposit that succeeded: <<debts, receivers>>
  targets,             \* receiver -> the largest next_balance(debt) computed for it
  \* the debt aggregator of receipts.rs
  agg_pc,              \* where track_receipts stands
  aggregated_topic,    \* None, or Some(partitions) of hourly records
  realtime_topic,      \* the client query records of the realtime topic
  latest_aggregated_offsets,    \* partition -> the offset the drain runs up to
  latest_aggregated_timestamp,  \* the largest timestamp the drain has read
  position,            \* partition -> the offset the drain reads next
  in_hand,             \* the record the drain is processing: its updates to send
  realtime_offset,     \* the offset the realtime stream yields next
  handlers,            \* the running realtime handlers: the updates each has to send
  channel,             \* the update channel
  data,                \* DB.data: receiver -> (hour -> fee)
  last_snapshot,       \* when the DB task published last
  clock,               \* the index of the current instant
  owner_pc,            \* where the DB task stands in its round
  buffer,              \* the updates of the round not applied yet
  batch_now,           \* the now of the round
  message_count,       \* the DB task's message_count
  ingested,            \* every update the DB task has applied, with its now
  ledger,              \* the updates that count: accepted, and not expired since
  \* Client::paginated_query of subgraph.rs, and the server it queries
  query_pc,            \* "request", "done" (Ok), "failed" (Err) or "empty_response"
  last_id,             \* the cursor, 0 for ""
  query_block,         \* the block pin: None, or Some of a block pointer
  results,             \* the rows collected, each with the block it was read at
  client_latest_block, \* self.latest_block
  chain,               \* the server's chain: chain[n] = block n, its hash and rows
  hashes,              \* the block hashes handed out so far
  restarts,            \* restarts of the query so far
  \* the start of main, up to the reconciliation loop
  startup_pc,          \* where main is before its loop
  authorize_signers,   \* config.authorize_signers
  config_signers,      \* config.signers: the addresses of the keys, as listed
  subgraph_signers,    \* the signers of the sender in the escrow subgraph
  chain_signers,       \* the signers authorized at the contract
  authorized_signers,  \* the local authorized_signers: None until it is fetched
  signer_i,            \* the position of the for loop in config.signers
  sent,                \* the signers of the authorizeSigner transactions sent
  watched,             \* the signers of the transactions seen confirmed
  \* the build of the program
  overflow_checks,     \* whether an integer overflow panics (else it wraps)
  \* the interval of the loop, in whole seconds from its creation
  timer_pc,            \* "select" (the loop waits) or "tick" (a tick runs)
  period,              \* config.update_interval_seconds
  instant,             \* the time now
  deadline,            \* the deadline of the interval's delay
  tick_count,          \* the ticks completed by interval.tick() so far
  fired_at,            \* the instant the latest tick fired
  due_at,              \* the deadline the latest tick was due at
  \* the loop of next_balance, step by step
  rung_pc,             \* "loop" (the while is running) or "return"
  rung_debt,           \* debt, in binary
  rung_round,          \* next_round, in binary
  \* ravs::process_messages of kafka.rs
  ravs_topic,          \* the gateway_ravs topic: records in the order of their offsets
  ravs_offset,         \* the offset of the record the stream yields next
  ravs_handlers,       \* the offsets of the records whose handlers are running
  ravs_map,            \* the value of the ravs watch channel: receiver -> value
  ravs_version,        \* the version of the watch channel: the notifications sent
  ravs_done            \* the offsets of the records whose handlers have returned

\* Option<T>: None, or Some(x) holding x
None == <<>>

Some(x) == <<x>>

Unwrap(o) == o[1]

ladderVars == <<debt_a, debt_b, target_a, target_b>>

reduceVars == <<reduce_pc, reduce_input, reduce_desired, reduce_out, reduce_i>>

loopVars == <<pc, ticks, signal, config_debts, debts, active, receivers,
              escrow_accounts, borrowed, adjustments, tx, latest_block, blocks,
              sigterm, ctrl_c, errors, read_block, receipt_block, settled, targets>>

aggVars == <<agg_pc, aggregated_topic, realtime_topic, latest_aggregated_offsets,
             latest_aggregated_timestamp, position, in_hand, realtime_offset,
             handlers, channel, data, last_snapshot, clock, owner_pc, buffer,
             batch_now, message_count, ingested, ledger>>

queryVars == <<query_pc, last_id, query_block, results, client_latest_block,
               chain, hashes, restarts>>

startupVars == <<startup_pc, authorize_signers, config_signers, subgraph_signers,
                 chain_signers, authorized_signers, signer_i, sent, watched>>

buildVars == <<overflow_checks>>

timerVars == <<timer_pc, period, instant, deadline, tick_count, fired_at, due_at>>

rungVars == <<rung_pc, rung_debt, rung_round>>

ravsVars == <<ravs_topic, ravs_offset, ravs_handlers, ravs_map, ravs_version, ravs_done>>

vars == <<ladderVars, reduceVars, loopVars, aggVars, queryVars, startupVars, buildVars, timerVars, rungVars, ravsVars>>

\* the map with no entry
EmptyMap == [r \in {} |-> Zero]

\* the state of a part of the program that a specification does not exercise
InitLadderIdle ==
  /\ debt_a = Zero
  /\ debt_b = Zero
  /\ target_a = None
  /\ target_b = None

InitReduceIdle ==
  /\ reduce_pc = "idle"
  /\ reduce_input = <<>>
  /\ reduce_desired = <<>>
  /\ reduce_out = <<>>
  /\ reduce_i = 0

InitLoopIdle ==
  /\ pc = "idle"
  /\ ticks = 0
  /\ signal = FALSE
  /\ config_debts = EmptyMap
  /\ debts = EmptyMap
  /\ active = {}
  /\ receivers = {}
  /\ escrow_accounts = EmptyMap
  /\ borrowed = None
  /\ adjustments = <<>>
  /\ tx = None
  /\ latest_block = 0
  /\ blocks = <<>>
  /\ sigterm = FALSE
  /\ ctrl_c = FALSE
  /\ errors = <<>>
  /\ read_block = 0
  /\ receipt_block = 0
  /\ settled = None
  /\ targets = EmptyMap

\* the state of the aggregator when a specification does not exercise it
InitAggIdle ==
  /\ agg_pc = "idle"
  /\ aggregated_topic = None
  /\ realtime_topic = <<>>
  /\ latest_aggregated_offsets = EmptyMap
  /\ latest_aggregated_timestamp = 0
  /\ position = EmptyMap
  /\ in_hand = None
  /\ realtime_offset = 0
  /\ handlers = <<>>
  /\ channel = <<>>
  /\ data = EmptyMap
  /\ last_snapshot = 0
  /\ clock = 1
  /\ owner_pc = "idle"
  /\ buffer = <<>>
  /\ batch_now = 0
  /\ message_count = 0
  /\ ingested = {}
  /\ ledger = {}

\* the state of the start of main when a specification does not exercise it:
\* main is in its loop
InitStartupIdle ==
  /\ startup_pc = "loop"
  /\ authorize_signers = FALSE
  /\ config_signers = <<>>
  /\ subgraph_signers = {}
  /\ chain_signers = {}
  /\ authorized_signers = None
  /\ signer_i = 0
  /\ sent = <<>>
  /\ watched = <<>>

\* the timer when a specification does not look at the time
InitTimerIdle ==
  /\ timer_pc = "idle"
  /\ period = 1
  /\ instant = 0
  /\ deadline = 0
  /\ tick_count = 0
  /\ fired_at = 0
  /\ due_at = 0

InitRungIdle ==
  /\ rung_pc = "idle"
  /\ rung_debt = {}
  /\ rung_round = {}

InitRavsIdle ==
  /\ ravs_topic = <<>>
  /\ ravs_offset = 0
  /\ ravs_handlers = {}
  /\ ravs_map = << >>
  /\ ravs_version = 0
  /\ ravs_done = {}

\* the build when a specification stays away from the limits of its integers
InitBuildIdle == overflow_checks = FALSE

\* the state of the paginated query when a specification does not exercise it
InitQueryIdle ==
  /\ query_pc = "idle"
  /\ last_id = 0
  /\ query_block = None
  /\ results = <<>>
  /\ client_latest_block = 0
  /\ chain = <<>>
  /\ hashes = 0
  /\ restarts = 0

(***************************************************************************)
(* The tier ladder on its own: the debts are drawn around every rung's     *)
(* threshold 0.6 * 2^j GRT, at the distances where the conversion to f64   *)
(* changes the outcome (half a unit in the last place is 64 * 2^j wei), and*)
(* at the points of tests::next_balance.                                   *)
(***************************************************************************)
RungExps == 1 .. MaxRungExp

LadderDebts ==
  {Amt(t, 0) : t \in {0, 10, 11, 13, 20, 300, 700, 1000}}
    \cup {Amt(0, 1), Amt(20, 1)}
    \cup {Amt(6 * Pow2(j) + d, 0) : j \in RungExps, d \in {-1, 1}}
    \cup UNION {{Amt(6 * Pow2(j), w) :
                   w \in {-64 * Pow2(j) - 1, -64 * Pow2(j), -1, 0, 1}} : j \in RungExps}

InitLadder ==
  /\ debt_a \in LadderDebts
  /\ debt_b \in LadderDebts
  /\ target_a = None
  /\ target_b = None
  /\ InitReduceIdle
  /\ InitLoopIdle
  /\ InitAggIdle
  /\ InitQueryIdle
  /\ InitStartupIdle
  /\ InitBuildIdle
  /\ InitTimerIdle
  /\ InitRungIdle
  /\ InitRavsIdle

\* next_balance(debt_a), next_balance(debt_b)
LadderApply ==
  /\ target_a = None
  /\ target_a' = Some(next_balance(debt_a))
  /\ target_b' = Some(next_balance(debt_b))
  /\ UNCHANGED <<debt_a, debt_b>>
  /\ UNCHANGED <<reduceVars, loopVars, aggVars, queryVars, startupVars, buildVars, timerVars, rungVars, ravsVars>>

NextLadder == LadderApply

SpecLadder == InitLadder /\ [][NextLadder]_vars

LadderApplied == target_a # None

result_a == Unwrap(target_a)

result_b == Unwrap(target_b)

(***************************************************************************)
(* Claims about the tier ladder.                                           *)
(***************************************************************************)
\* MAX_BATCH = 10,000 GRT, the width after which the ladder is to grow linearly
MAX_BATCH == GrtTimes(10000)

\* the rungs 2, 4, 8, ... GRT of the doubling ladder, as counts of GRT
DoublingRungs == {Pow2(j) : j \in 1 .. (MaxRungExp + 2)}

\* the smallest rung R with debt < 0.6 * R, in exact arithmetic
SmallestRung(debt) ==
  CHOOSE r \in DoublingRungs :
    /\ Lt(debt, Amt(6 * r, 0))
    /\ \A q \in DoublingRungs : Lt(debt, Amt(6 * q, 0)) => r <= q

\* the first rung of the ladder that no longer doubles: 16384 GRT is followed
\* by 16384 + 10000 GRT
LinearFrom == Amt(6 * 16384, 0)

\* C3: every debt below the linear-extension range maps to the smallest rung
\* R of 2, 4, 8, ... GRT with debt < 0.6 * R (so every debt < 0.6 * MIN maps
\* to MIN, MIN and MIN + 1 to 2 * MIN, 30 GRT to 64 GRT, ...).
C3_SmallestRung ==
  /\ (LadderApplied /\ Lt(debt_a, LinearFrom))
       => result_a = GrtTimes(SmallestRung(debt_a))
  /\ (LadderApplied /\ debt_a = Zero) => result_a = MIN_DEPOSIT
  /\ (LadderApplied /\ debt_a = MIN_DEPOSIT) => result_a = GrtTimes(4)
  /\ (LadderApplied /\ debt_a = Amt(20, 1)) => result_a = GrtTimes(4)
  /\ (LadderApplied /\ debt_a = GrtTimes(30)) => result_a = GrtTimes(64)
  /\ (LadderApplied /\ debt_a = GrtTimes(70)) => result_a = GrtTimes(128)
  /\ (LadderApplied /\ debt_a = GrtTimes(100)) => result_a = GrtTimes(256)

\* C4: next_balance is monotone: a <= b implies next_balance(a) <= next_balance(b).
C4_Monotone ==
  (LadderApplied /\ Le(debt_a, debt_b)) => Le(result_a, result_b)

\* two debts on different rungs, the smaller within float rounding of its threshold
C4_Witness ==
  /\ LadderApplied
  /\ debt_a = Amt(12, -1)
  /\ Lt(debt_a, debt_b)
  /\ Lt(result_a, result_b)

\* C5: for every debt d, next_balance(d) >= MIN = 2 GRT.
C5_Floor ==
  LadderApplied => (Le(MIN_DEPOSIT, result_a) /\ Le(MIN_DEPOSIT, result_b))

\* the ladder applied to no debt at all returns exactly MIN
C5_Witness ==
  /\ LadderApplied
  /\ debt_a = Zero
  /\ result_a = MIN_DEPOSIT

RECURSIVE ExtendedRung(_)
\* the rungs r -> min(2 * r, r + MAX_BATCH / GRT) starting from MIN / GRT
ExtendedRung(i) ==
  IF i = 0 THEN 2
  ELSE LET r == ExtendedRung(i - 1)
       IN  IF 2 * r < r + 10000 THEN 2 * r ELSE r + 10000

ExtendedRungs == {ExtendedRung(i) : i \in 0 .. (MaxRungExp + 2)}

\* the rungs R' with debt >= 0.6 * R'
RungsReached(debt) == {r \in ExtendedRungs : ~Lt(debt, Amt(6 * r, 0))}

\* the largest of them
PrecedingRung(debt) ==
  CHOOSE r \in RungsReached(debt) : \A q \in RungsReached(debt) : q <= r

\* C6: the rungs advance by r -> min(2r, r + MAX_BATCH/GRT): next_balance(debt)
\* exceeds the preceding rung (the largest R' with debt >= 0.6 R') by at most
\* MAX_BATCH.  Stated for the debts that are doubles themselves, where the
\* conversion to f64 plays no part.
C6_LinearExtension ==
  (LadderApplied /\ AsF64(debt_a) = debt_a /\ RungsReached(debt_a) # {})
    => Le(saturating_sub(result_a, GrtTimes(PrecedingRung(debt_a))), MAX_BATCH)

(***************************************************************************)
(* The batch-cap reduction of an adjustment list whose sum exceeds         *)
(* MAX_BATCH.  An adjustment list is a sequence of <<receiver, amount>>,   *)
(* receivers are addresses, modelled as the naturals 1, 2, ...             *)
(***************************************************************************)
\* the step by which the reduction raises a receiver's deposit: 100 GRT
REDUCE_STEP == GrtTimes(100)

RECURSIVE SumRange(_, _, _)
\* s[lo][2] + ... + s[hi][2]
SumRange(s, lo, hi) ==
  IF lo > hi THEN Zero
  ELSE IF lo = hi THEN s[lo][2]
  ELSE LET mid == (lo + hi) \div 2
       IN  Add(SumRange(s, lo, mid), SumRange(s, mid + 1, hi))

\* the sum of the amounts of an adjustment list
Total(list) == SumRange(list, 1, Len(list))

Receivers(list) == {list[i][1] : i \in DOMAIN list}

IsSorted(list) == \A i \in 1 .. (Len(list) - 1) : list[i][1] < list[i + 1][1]

RECURSIVE Insert(_, _)
\* the sorted list with one more entry
Insert(list, e) ==
  IF list = <<>> THEN <<e>>
  ELSE IF e[1] < Head(list)[1] THEN <<e>> \o list
  ELSE <<Head(list)>> \o Insert(Tail(list), e)

RECURSIVE InsertAll(_, _)
InsertAll(sorted, list) ==
  IF list = <<>> THEN sorted ELSE InsertAll(Insert(sorted, Head(list)), Tail(list))

\* the list left in the order it came in
SortByArrival(list) == list

\* the list ordered by receiver address, ascending
SortByAddress(list) == IF IsSorted(list) THEN list ELSE InsertAll(<<>>, list)

\* out[r] = 0 for every r, a reduction that starts from nothing
ReduceInitZero(desired) == [i \in DOMAIN desired |-> <<desired[i][1], Zero>>]

\* out[r] = MIN for every r of the input
ReduceInit(desired) == [i \in DOMAIN desired |-> <<desired[i][1], MIN_DEPOSIT>>]

\* one visit of receiver i: raise out[i] by one step, up to desired[i]
ReduceVisit(desired, out, i) ==
  IF Lt(out[i][2], desired[i][2])
  THEN [out EXCEPT ![i][2] = Min(desired[i][2], Add(out[i][2], REDUCE_STEP))]
  ELSE out

\* the receiver visited after receiver i: the next one, or the first again
ReduceAfter(desired, i) == IF i = Len(desired) THEN 1 ELSE i + 1

(***************************************************************************)
(* The reduction run step by step on one adjustment list.                  *)
(***************************************************************************)
ReduceAmounts == {GrtTimes(1), GrtTimes(5000), GrtTimes(10001)}

\* the lists of k distinct receivers out of 1 .. MaxListed, in any order
ListsOf(k) ==
  {l \in [1 .. k -> (1 .. MaxListed) \X ReduceAmounts] :
     \A i, j \in 1 .. k : i # j => l[i][1] # l[j][1]}

\* a crowd of n receivers that all want the same amount
Crowd(n, amount) == [i \in 1 .. n |-> <<i, amount>>]

ReduceInputs ==
  {l \in UNION {ListsOf(k) : k \in 1 .. MaxListed} : Lt(MAX_BATCH, Total(l))}
    \cup {Crowd(MaxCrowd, MIN_DEPOSIT), Crowd(MaxCrowd - 51, GrtTimes(3))}

InitReduce ==
  /\ reduce_pc = "call"
  /\ reduce_input \in ReduceInputs
  /\ reduce_desired = <<>>
  /\ reduce_out = <<>>
  /\ reduce_i = 0
  /\ InitLadderIdle
  /\ InitLoopIdle
  /\ InitAggIdle
  /\ InitQueryIdle
  /\ InitStartupIdle
  /\ InitBuildIdle
  /\ InitTimerIdle
  /\ InitRungIdle
  /\ InitRavsIdle

\* reduce(adjustments): order the input by address, out[r] = MIN for every r
ReduceCall ==
  /\ reduce_pc = "call"
  /\ reduce_desired' = SortByAddress(reduce_input)
  /\ reduce_out' = ReduceInit(reduce_desired')
  /\ reduce_i' = 1
  /\ reduce_pc' = "loop"
  /\ UNCHANGED reduce_input
  /\ UNCHANGED <<ladderVars, loopVars, aggVars, queryVars, startupVars, buildVars, timerVars, rungVars, ravsVars>>

\* one visit: raise out[r] towards desired[r], and return once the sum is
\* MAX_BATCH or more
ReduceStep ==
  /\ reduce_pc = "loop"
  /\ reduce_out' = ReduceVisit(reduce_desired, reduce_out, reduce_i)
  /\ IF ~Lt(Total(reduce_out'), MAX_BATCH)
     THEN reduce_pc' = "return" /\ UNCHANGED reduce_i
     ELSE reduce_pc' = "loop" /\ reduce_i' = ReduceAfter(reduce_desired, reduce_i)
  /\ UNCHANGED <<reduce_input, reduce_desired>>
  /\ UNCHANGED <<ladderVars, loopVars, aggVars, queryVars, startupVars, buildVars, timerVars, rungVars, ravsVars>>

NextReduce == ReduceCall \/ ReduceStep

SpecReduce == InitReduce /\ [][NextReduce]_vars

Reduced == reduce_pc = "return"

\* the amount the list holds for receiver r
AmountOf(list, r) == list[CHOOSE i \in DOMAIN list : list[i][1] = r][2]

(***************************************************************************)
(* Claims about the batch-cap reduction.                                   *)
(***************************************************************************)
\* C7: for any adjustment list whose sum exceeds MAX_BATCH, the reduction
\* returns a list whose sum lies in [MAX_BATCH, MAX_BATCH + 100 GRT], for
\* every number of receivers and every combination of desired amounts.
C7_SumInRange ==
  Reduced => /\ Le(MAX_BATCH, Total(reduce_out))
             /\ Le(Total(reduce_out), Add(MAX_BATCH, REDUCE_STEP))

\* C8: the reduction never raises a deposit above what was asked:
\* out[r] <= desired[r] for every receiver of the input, also for a receiver
\* whose desired adjustment is below MIN.
C8_NeverAboveDesired ==
  Reduced => \A i \in DOMAIN reduce_input :
               Le(AmountOf(reduce_out, reduce_input[i][1]), reduce_input[i][2])

\* C9: the reduction preserves the keyset and starves nobody: the output
\* holds exactly the receivers of the input, each once, each with at least MIN.
C9_KeysetAndMin ==
  (reduce_pc \in {"loop", "return"}) =>
    /\ Receivers(reduce_out) = Receivers(reduce_input)
    /\ Len(reduce_out) = Len(reduce_input)
    /\ \A i \in DOMAIN reduce_out : Le(MIN_DEPOSIT, reduce_out[i][2])

\* a reduction that returned a list in which one receiver was cut below its
\* desired amount and another was never raised above MIN
C9_Witness ==
  /\ Reduced
  /\ \E i \in DOMAIN reduce_out :
       /\ Lt(MIN_DEPOSIT, reduce_out[i][2])
       /\ Lt(reduce_out[i][2], reduce_desired[i][2])
  /\ \E i \in DOMAIN reduce_out : reduce_out[i][2] = MIN_DEPOSIT

(***************************************************************************)
(* The reconciliation loop of main (src/main.rs, the loop of lines         *)
(* 165-250).  One action per await point or branch of a tick.              *)
(***************************************************************************)
\* the receivers of the model, as addresses
Addresses == {1, 2}

\* m.get(r).unwrap_or(0)
Get(m, r) == IF r \in DOMAIN m THEN m[r] ELSE Zero

\* the snapshots the aggregator may publish; their debts: one wei below
\* 0.6 * MIN, 70 GRT, and 0.6 * 16384 GRT
Snapshots ==
  { EmptyMap,
    [r \in {1} |-> Amt(12, -1)],
    [r \in {1, 2} |-> IF r = 1 THEN GrtTimes(70) ELSE Amt(12, -1)],
    [r \in {2} |-> Amt(6 * 16384, 0)] }

\* the escrow accounts the chain may start with
Genesis ==
  { EmptyMap,
    [r \in {1} |-> GrtTimes(200)],
    [r \in {1, 2} |-> IF r = 1 THEN GrtTimes(1) ELSE GrtTimes(200)] }

\* config.debts of the run: none, or a floor of 30 GRT for receiver 2
ConfigDebts == {EmptyMap, [r \in {2} |-> 30]}

Init ==
  /\ pc = "select"
  /\ ticks = 0
  /\ signal = FALSE
  /\ config_debts \in ConfigDebts
  /\ debts = EmptyMap          \* watch::channel(Default::default())
  /\ active = {}
  /\ receivers = {}
  /\ escrow_accounts = EmptyMap
  /\ borrowed = None
  /\ adjustments = <<>>
  /\ tx = None
  /\ latest_block = 0
  /\ blocks \in {<<b>> : b \in Genesis}
  /\ sigterm = FALSE
  /\ ctrl_c = FALSE
  /\ errors = <<>>
  /\ read_block = 0
  /\ receipt_block = 0
  /\ settled = None
  /\ targets = EmptyMap
  /\ InitLadderIdle
  /\ InitReduceIdle
  /\ InitAggIdle
  /\ InitQueryIdle
  /\ InitStartupIdle
  /\ InitBuildIdle
  /\ InitTimerIdle
  /\ InitRungIdle
  /\ InitRavsIdle

Idle == UNCHANGED <<ladderVars, reduceVars, aggVars, queryVars, startupVars, buildVars, timerVars, rungVars, ravsVars>>

\* the end of a loop iteration (continue, or the end of the body): the locals
\* of the iteration are dropped and the loop is back at select!
Continue ==
  /\ pc' = "select"
  /\ active' = {}
  /\ receivers' = {}
  /\ escrow_accounts' = EmptyMap
  /\ borrowed' = None
  /\ adjustments' = <<>>
  /\ tx' = None
  /\ read_block' = 0

\* the aggregator publishes a new snapshot on the watch channel. A tick reads
\* the channel once, in its borrow: what is published after the borrow is seen
\* by the next tick only, and is published here while the loop is at select!
SnapshotPublished ==
  /\ pc \in {"select", "active_indexers", "escrow_accounts", "adjust"}
  /\ \E m \in Snapshots : debts' = m /\ m # debts
  /\ UNCHANGED <<pc, ticks, signal, config_debts, active, receivers, escrow_accounts,
                 borrowed, adjustments, tx, latest_block, blocks>>
  /\ UNCHANGED <<sigterm, ctrl_c, errors, read_block, receipt_block, settled, targets>>
  /\ Idle

\* the kinds of signal the loop listens for
Signals == {"SIGINT", "SIGTERM"}

\* SIGINT or SIGTERM arrives. The sigterm stream is created before the loop and
\* keeps a notification until recv() takes it. ctrl_c() builds a new listener
\* in every select!, and a listener is notified only of what arrives while
\* it exists: a SIGINT that arrives during a tick notifies nobody.
SignalDelivered ==
  /\ ~signal
  /\ pc # "exit"
  /\ signal' = TRUE
  /\ \E kind \in Signals :
       /\ sigterm' = (kind = "SIGTERM")
       /\ ctrl_c' = (kind = "SIGINT" /\ pc = "select")
  /\ UNCHANGED <<pc, ticks, config_debts, debts, active, receivers, escrow_accounts,
                 borrowed, adjustments, tx, latest_block, blocks>>
  /\ UNCHANGED <<errors, read_block, receipt_block, settled, targets>>
  /\ Idle

\* a tick that starts whatever the tick before is doing
TickSpawned ==
  /\ pc # "exit"
  /\ ticks < MaxTicks
  /\ ticks' = ticks + 1
  /\ pc' = "active_indexers"
  /\ UNCHANGED <<signal, config_debts, debts, active, receivers, escrow_accounts,
                 borrowed, adjustments, tx, latest_block, blocks>>
  /\ ctrl_c' = FALSE
  /\ errors' = <<>>
  /\ UNCHANGED <<sigterm, read_block, receipt_block, settled, targets>>
  /\ Idle

\* select!: interval.tick() completes
Tick ==
  /\ pc = "select"
  /\ ticks < MaxTicks
  /\ ticks' = ticks + 1
  /\ pc' = "active_indexers"
  /\ UNCHANGED <<signal, config_debts, debts, active, receivers, escrow_accounts,
                 borrowed, adjustments, tx, latest_block, blocks>>
  /\ ctrl_c' = FALSE        \* the ctrl_c() future of this select! is dropped
  /\ errors' = <<>>
  /\ UNCHANGED <<sigterm, read_block, receipt_block, settled, targets>>
  /\ Idle

\* select!: ctrl_c() or sigterm.recv() completes: bail!("exit")
Exit ==
  /\ pc = "select"
  /\ (ctrl_c \/ sigterm)
  /\ pc' = "exit"
  /\ UNCHANGED <<ticks, signal, config_debts, debts, active, receivers, escrow_accounts,
                 borrowed, adjustments, tx, latest_block, blocks>>
  /\ UNCHANGED <<sigterm, ctrl_c, errors, read_block, receipt_block, settled, targets>>
  /\ Idle

\* active_indexers(..) returns Ok(receivers)
ActiveIndexersOk ==
  /\ pc = "active_indexers"
  /\ \E S \in SUBSET Addresses : active' = S /\ receivers' = S
  /\ pc' = "escrow_accounts"
  /\ UNCHANGED <<ticks, signal, config_debts, debts, escrow_accounts, borrowed,
                 adjustments, tx, latest_block, blocks>>
  /\ UNCHANGED <<sigterm, ctrl_c, errors, read_block, receipt_block, settled, targets>>
  /\ Idle

\* active_indexers(..) returns Err: continue
ActiveIndexersErr ==
  /\ pc = "active_indexers"
  /\ Continue
  /\ UNCHANGED <<ticks, signal, config_debts, debts, latest_block, blocks>>
  /\ errors' = Append(errors, "active_indexers_err")
  /\ UNCHANGED <<sigterm, ctrl_c, receipt_block, settled, targets>>
  /\ Idle

\* receivers.extend(keys) with the extension forgotten
extend_forgotten(set, keys) == set

\* receivers.extend(escrow_accounts.keys())
extend(set, keys) == set \cup keys

\* the block constraint of the first page with the hint ignored
number_gte_none(hint) == 0

\* the block constraint of the first page: number_gte = the client's hint
number_gte(hint) == hint

\* escrow_accounts(..) returns Ok: the balances of a block at or after the hint;
\* an empty result (EmptyResponse) is the empty map and leaves the hint alone
EscrowAccountsOk ==
  /\ pc = "escrow_accounts"
  /\ \E n \in DOMAIN blocks :
       /\ n >= number_gte(latest_block)
       /\ escrow_accounts' = blocks[n]
       /\ read_block' = n
       /\ latest_block' = IF DOMAIN blocks[n] = {} THEN latest_block ELSE n
  /\ receivers' = extend(receivers, DOMAIN escrow_accounts')
  /\ pc' = "adjust"
  /\ UNCHANGED <<ticks, signal, config_debts, debts, active, borrowed, adjustments,
                 tx, blocks>>
  /\ UNCHANGED <<sigterm, ctrl_c, errors, receipt_block, settled, targets>>
  /\ Idle

\* escrow_accounts(..) returns Err: continue
EscrowAccountsErr ==
  /\ pc = "escrow_accounts"
  /\ Continue
  /\ UNCHANGED <<ticks, signal, config_debts, debts, latest_block, blocks>>
  /\ errors' = Append(errors, "escrow_accounts_err")
  /\ UNCHANGED <<sigterm, ctrl_c, receipt_block, settled, targets>>
  /\ Idle

\* the debt of a receiver: the larger of its snapshot entry and its configured floor
debt_of(snapshot, floors, receiver) ==
  Max(Get(snapshot, receiver),
      IF receiver \in DOMAIN floors THEN GrtTimes(floors[receiver]) ELSE Zero)

\* the adjustment of a receiver taken as its whole target
adjustment_whole(snapshot, floors, accounts, receiver) ==
  next_balance(debt_of(snapshot, floors, receiver))

\* the adjustment of a receiver taken with a plain subtraction
adjustment_unsaturated(snapshot, floors, accounts, receiver) ==
  WrappingSub(next_balance(debt_of(snapshot, floors, receiver)),
              Get(accounts, receiver))

\* the body of the filter_map closure: next_balance(debt).saturating_sub(balance)
adjustment_of(snapshot, floors, accounts, receiver) ==
  saturating_sub(next_balance(debt_of(snapshot, floors, receiver)),
                 Get(accounts, receiver))

\* the orders in which a HashSet may hand out its elements
Orderings(S) ==
  {o \in [1 .. Cardinality(S) -> S] : \A i, j \in DOMAIN o : i # j => o[i] # o[j]}

\* the largest target computed for each receiver, after one more tick's targets
TargetsAfter(seen, snapshot, floors, considered) ==
  [r \in DOMAIN seen \cup considered |->
     IF r \in considered
     THEN Max(Get(seen, r), next_balance(debt_of(snapshot, floors, r)))
     ELSE seen[r]]

\* debts.borrow(), the filter_map over receivers, collect(), drop(debts)
Adjust ==
  /\ pc = "adjust"
  /\ borrowed' = Some(debts)
  /\ targets' = TargetsAfter(targets, debts, config_debts, receivers)
  /\ LET emitted == {r \in receivers :
                       adjustment_of(debts, config_debts, escrow_accounts, r) # Zero}
     IN  \E o \in Orderings(emitted) :
           adjustments' =
             [i \in DOMAIN o |->
                <<o[i], adjustment_of(debts, config_debts, escrow_accounts, o[i])>>]
  /\ pc' = "total"
  /\ UNCHANGED <<ticks, signal, config_debts, debts, active, receivers, escrow_accounts,
                 tx, latest_block, blocks>>
  /\ UNCHANGED <<sigterm, ctrl_c, errors, read_block, receipt_block, settled>>
  /\ Idle

\* total_adjustment > 0: escrow.depositMany(receivers, amounts) is built
DepositMany ==
  /\ pc = "total"
  /\ Total(adjustments) # Zero
  /\ tx' = Some(adjustments)
  /\ pc' = "send"
  /\ UNCHANGED <<ticks, signal, config_debts, debts, active, receivers, escrow_accounts,
                 borrowed, adjustments, latest_block, blocks>>
  /\ UNCHANGED <<sigterm, ctrl_c, errors, read_block, receipt_block, settled, targets>>
  /\ Idle

\* total_adjustment = 0: the tick ends without a transaction
NoDeposit ==
  /\ pc = "total"
  /\ Total(adjustments) = Zero
  /\ Continue
  /\ UNCHANGED <<ticks, signal, config_debts, debts, latest_block, blocks>>
  /\ UNCHANGED <<sigterm, ctrl_c, errors, receipt_block, settled, targets>>
  /\ Idle

\* tx.send() returns Ok(pending)
SendOk ==
  /\ pc = "send"
  /\ pc' = "receipt"
  /\ UNCHANGED <<ticks, signal, config_debts, debts, active, receivers, escrow_accounts,
                 borrowed, adjustments, tx, latest_block, blocks>>
  /\ UNCHANGED <<sigterm, ctrl_c, errors, read_block, receipt_block, settled, targets>>
  /\ Idle

\* tx.send() returns Err and the tick goes on to wait for a receipt
SendErrThenReceipt ==
  /\ pc = "send"
  /\ errors' = Append(errors, "contract_call_err")
  /\ pc' = "receipt"
  /\ UNCHANGED <<ticks, signal, config_debts, debts, active, receivers, escrow_accounts,
                 borrowed, adjustments, tx, latest_block, blocks>>
  /\ UNCHANGED <<sigterm, ctrl_c, read_block, receipt_block, settled, targets>>
  /\ Idle

\* tx.send() returns Err: continue
SendErr ==
  /\ pc = "send"
  /\ Continue
  /\ UNCHANGED <<ticks, signal, config_debts, debts, latest_block, blocks>>
  /\ errors' = Append(errors, "contract_call_err")
  /\ UNCHANGED <<sigterm, ctrl_c, receipt_block, settled, targets>>
  /\ Idle

\* the balances after a depositMany call is mined: every listed receiver is
\* credited with its amount
Credited(balances, call) ==
  [r \in DOMAIN balances \cup Receivers(call) |->
     IF r \in Receivers(call) THEN Add(Get(balances, r), AmountOf(call, r))
     ELSE balances[r]]

\* get_receipt() returns Ok(receipt): the transaction is mined in a new block,
\* where it credited every listed receiver or reverted as a whole (the receipt's
\* status is not looked at). The receipt of a mined transaction names its
\* block, and the escrow subgraph client is rebuilt with that block as its hint.
ReceiptOk ==
  /\ pc = "receipt"
  /\ \E reverted \in BOOLEAN :
       /\ blocks' = Append(blocks, IF reverted THEN blocks[Len(blocks)]
                                    ELSE Credited(blocks[Len(blocks)], Unwrap(tx)))
       /\ settled' = IF reverted THEN settled ELSE Some(<<Unwrap(borrowed), receivers>>)
  /\ latest_block' = Len(blocks')
  /\ receipt_block' = Len(blocks')
  /\ Continue
  /\ UNCHANGED <<ticks, signal, config_debts, debts>>
  /\ UNCHANGED <<sigterm, ctrl_c, errors, targets>>
  /\ Idle

\* get_receipt() returns Err (the wait timed out, or the transport failed):
\* continue; the transaction may or may not have been mined
ReceiptErr ==
  /\ pc = "receipt"
  /\ \E mined \in BOOLEAN :
       blocks' = IF mined THEN Append(blocks, Credited(blocks[Len(blocks)], Unwrap(tx)))
                 ELSE blocks
  /\ Continue
  /\ UNCHANGED <<ticks, signal, config_debts, debts, latest_block>>
  /\ errors' = Append(errors, "pending_tx_err")
  /\ UNCHANGED <<sigterm, ctrl_c, receipt_block, settled, targets>>
  /\ Idle

Next ==
  \/ SnapshotPublished
  \/ SignalDelivered
  \/ Tick
  \/ Exit
  \/ ActiveIndexersOk
  \/ ActiveIndexersErr
  \/ EscrowAccountsOk
  \/ EscrowAccountsErr
  \/ Adjust
  \/ DepositMany
  \/ NoDeposit
  \/ SendOk
  \/ SendErr
  \/ ReceiptOk
  \/ ReceiptErr

Spec == Init /\ [][Next]_vars

\* the start of a run with no configured debts and no escrow account yet
InitLive ==
  /\ pc = "select"
  /\ ticks = 0
  /\ signal = FALSE
  /\ config_debts = EmptyMap
  /\ debts = EmptyMap
  /\ active = {}
  /\ receivers = {}
  /\ escrow_accounts = EmptyMap
  /\ borrowed = None
  /\ adjustments = <<>>
  /\ tx = None
  /\ latest_block = 0
  /\ blocks = <<EmptyMap>>
  /\ sigterm = FALSE
  /\ ctrl_c = FALSE
  /\ errors = <<>>
  /\ read_block = 0
  /\ receipt_block = 0
  /\ settled = None
  /\ targets = EmptyMap
  /\ InitLadderIdle
  /\ InitReduceIdle
  /\ InitAggIdle
  /\ InitQueryIdle
  /\ InitStartupIdle
  /\ InitBuildIdle
  /\ InitTimerIdle
  /\ InitRungIdle
  /\ InitRavsIdle

\* the steps the loop task takes by itself, besides Adjust: the timer fires,
\* and every await of a tick completes one way or the other
LoopStep ==
  \/ Tick
  \/ ActiveIndexersOk
  \/ ActiveIndexersErr
  \/ EscrowAccountsOk
  \/ EscrowAccountsErr
  \/ DepositMany
  \/ NoDeposit
  \/ SendOk
  \/ SendErr
  \/ ReceiptOk
  \/ ReceiptErr

\* the loop under its scheduling: the task is always polled again, and select!
\* picks among its ready branches at random, so a signal branch that is ready
\* at every select! is eventually the one taken. Adjust has no await: it is
\* enabled exactly while pc = "adjust", and its weak fairness is that the loop
\* does not stay there.
SpecLive ==
  /\ InitLive
  /\ [][Next]_vars
  /\ WF_vars(LoopStep)
  /\ SF_vars(Exit)
  /\ []<>(pc # "adjust")

(***************************************************************************)
(* Claims about the reconciliation loop.                                   *)
(***************************************************************************)
\* the receivers the claim ranges over: active receivers and escrow account holders
Considered == active \cup DOMAIN escrow_accounts

\* the debt of the claim: max(snapshot[r] or 0, floor[r] * GRT or 0)
ClaimedDebt(r) ==
  LET s == IF r \in DOMAIN Unwrap(borrowed) THEN Unwrap(borrowed)[r] ELSE Zero
      f == IF r \in DOMAIN config_debts THEN GrtTimes(config_debts[r]) ELSE Zero
  IN  IF Lt(s, f) THEN f ELSE s

ClaimedBalance(r) == IF r \in DOMAIN escrow_accounts THEN escrow_accounts[r] ELSE Zero

\* C1: in each tick, for every receiver r of (active receivers + receivers with
\* an escrow account), with debt = max(snapshot[r] or 0, floor[r] * GRT or 0)
\* and balance = escrow[r] or 0, the loop emits (r, next_balance(debt) - balance)
\* exactly when next_balance(debt) > balance, and nothing for r otherwise; no
\* receiver outside that union is emitted.
C1_Adjustments ==
  (pc = "total") =>
    /\ Receivers(adjustments) \subseteq Considered
    /\ Len(adjustments) = Cardinality(Receivers(adjustments))
    /\ \A r \in Considered :
         LET target  == next_balance(ClaimedDebt(r))
             balance == ClaimedBalance(r)
         IN  IF Lt(balance, target)
             THEN /\ r \in Receivers(adjustments)
                  /\ Add(AmountOf(adjustments, r), balance) = target
             ELSE r \notin Receivers(adjustments)

\* a tick that emits for an inactive account holder whose debt comes from the
\* snapshot and leaves out an active receiver whose balance covers its target
C1_Witness ==
  /\ pc = "total"
  /\ \E r \in Considered \ active :
       /\ r \in Receivers(adjustments)
       /\ r \in DOMAIN Unwrap(borrowed)
  /\ \E r \in active : r \notin Receivers(adjustments)

\* C2: every amount passed to a deposit call is strictly positive, and a tick
\* whose adjustment list is empty (every balance already at or above its
\* target) sends no deposit transaction at all.
C2_PositiveDeposits ==
  /\ (tx # None) =>
       /\ Unwrap(tx) # <<>>
       /\ \A i \in DOMAIN Unwrap(tx) : Lt(Zero, Unwrap(tx)[i][2])
  /\ (pc \in {"send", "receipt"}) => (tx # None /\ adjustments # <<>>)
  /\ (adjustments = <<>>) => tx = None

\* a second tick that finds every balance at its target, after the deposit of
\* the first tick, and is about to end without a transaction
C2_Witness ==
  /\ Len(blocks) = 2
  /\ pc = "total"
  /\ receivers # {}
  /\ adjustments = <<>>
  /\ tx = None

\* C10: every deposit transaction the loop issues has a total amount of at
\* most MAX_BATCH + 100 GRT: a tick whose adjustments exceed MAX_BATCH reduces
\* them before the deposit call.
C10_DepositCapped ==
  (tx # None) => Le(Total(Unwrap(tx)), Add(MAX_BATCH, REDUCE_STEP))

\* the steps that fail log one of these
ErrorLogs ==
  {"active_indexers_err", "escrow_accounts_err", "contract_call_err", "pending_tx_err"}

\* a step of the tick has just failed
StepFailed == Len(errors') > Len(errors)

\* C11: a failure of any step of a tick (active-receivers query, escrow-accounts
\* query, sending the deposit, awaiting its receipt) never terminates the
\* process: the tick is abandoned with no later step of it executed, the
\* escrow-view block hint is left unchanged, and the loop proceeds to the next
\* tick (it is back at select!, which only a signal makes exit).
C11_FailureSkipsTick ==
  /\ [](pc = "exit" => signal)
  /\ [](errors # <<>> => (Len(errors) = 1 /\ errors[1] \in ErrorLogs
                           /\ pc \in {"select", "exit"}))
  /\ [][StepFailed => (/\ pc' = "select"
                       /\ latest_block' = latest_block
                       /\ tx' = None
                       /\ ticks' = ticks)]_vars
  /\ [][(errors # <<>> /\ pc = "select" /\ pc' # "select")
          => (pc' = "active_indexers" \/ (pc' = "exit" /\ (ctrl_c \/ sigterm)))]_vars

\* a tick that started after the receipt of the tick before it had failed
C11_Witness ==
  /\ ticks = 2
  /\ pc = "adjust"
  /\ Len(blocks) = 2
  /\ errors = <<>>
  /\ settled = None

\* C12: after a deposit succeeds with receipt block number B, every
\* escrow-accounts read of every later tick is issued with number_gte >= B, so
\* no tick after it computes adjustments from balances of a block before B.
C12_HintAfterDeposit ==
  /\ number_gte(latest_block) >= receipt_block
  /\ (read_block # 0) => read_block >= receipt_block

\* a tick after a successful deposit has read the escrow accounts
C12_Witness ==
  /\ receipt_block = 2
  /\ pc = "adjust"
  /\ read_block = 2

\* k times an amount
Scale(k, a) == Amt(k * a[1], k * a[2])

\* the tick runs on the debts and receivers of the latest successful deposit,
\* and on balances read at or after the block of that deposit
SameAsSettled ==
  /\ settled # None
  /\ borrowed = Some(Unwrap(settled)[1])
  /\ Considered = Unwrap(settled)[2]
  /\ read_block >= receipt_block

\* C13: the tick is idempotent and the policy converges: after a successful
\* deposit that the escrow view reflects, every considered receiver's balance
\* is >= next_balance(debt), hence debt < 0.6 * balance, and as long as debts
\* and the receiver set are unchanged a following tick issues no deposit.
C13_Converges ==
  (pc = "total" /\ SameAsSettled) =>
    /\ adjustments = <<>>
    /\ \A r \in Considered :
         /\ Le(next_balance(ClaimedDebt(r)), ClaimedBalance(r))
         /\ Lt(Scale(10, ClaimedDebt(r)), Scale(6, ClaimedBalance(r)))

\* the tick after a deposit finds nothing to adjust for a receiver with a debt
C13_Witness ==
  /\ pc = "total"
  /\ SameAsSettled
  /\ adjustments = <<>>
  /\ \E r \in Considered : Lt(Zero, ClaimedDebt(r))

\* C15: once SIGINT or SIGTERM has been delivered, whether while the loop waits
\* for the timer or while a tick is in progress, the loop eventually exits with
\* an error result and starts no new tick after the exit decision; without a
\* signal the loop never exits.
C15_SignalExits ==
  /\ signal ~> (pc = "exit")
  /\ [](pc = "exit" => signal)
  /\ [][pc = "exit" => (pc' = "exit" /\ ticks' = ticks)]_vars

\* the balance of a receiver at the head of the chain
HeadBalance(r) == Get(blocks[Len(blocks)], r)

\* C14: retrying after a failed tick is safe: over any sequence of ticks,
\* including ticks whose send or receipt wait failed while the transaction
\* still landed, the deposits never lift a receiver's balance above the largest
\* target next_balance(debt) computed for it (unless it was already above).
C14_RetrySafe ==
  \A r \in DOMAIN blocks[Len(blocks)] :
    Le(HeadBalance(r), Max(Get(blocks[1], r), Get(targets, r)))

(***************************************************************************)
(* The debt aggregator of src/receipts.rs: track_receipts (the drain of    *)
(* the aggregated topic and the handover to the realtime topic),           *)
(* process_messages (the concurrent realtime handlers) and the task that   *)
(* owns the DB.  Times are whole seconds: a Kafka timestamp of t ms is     *)
(* written t / 1000.                                                       *)
(***************************************************************************)
\* Duration::hours(1).num_seconds()
HOUR == 60 * 60

\* Duration::days(28)
WINDOW == 28 * 24 * HOUR

\* the start of hour n
Hr(n) == n * HOUR

\* the instant the DB task is spawned at: the window then begins with hour 10
Now0 == WINDOW + Hr(10)

\* the instants the clock passes through, in order
Instants == <<Now0, Now0 + 1, Now0 + HOUR, Now0 + HOUR + 30 * 60>>

\* hourly_timestamp(t) = t - (t % 3600), on the seconds of t
hourly_timestamp(t) == t - (t % HOUR)

\* a number of seconds handed to Kafka, which reads timestamps as milliseconds
AsKafkaMillis(seconds) == seconds \div 1000

\* the authorized signers, and the signers that records may carry
signers == {1}

AnySigner == {1, 2}

\* signers.contains(..) answering yes for everybody
contains_anyone(set, signer) == TRUE

\* signers.contains(&signer)
contains(set, signer) == signer \in set

\* (fee_grt * 1e18) as u128, for a fee of a whole number of GRT: the product is
\* rounded to f64, and the cast sends a negative value to 0
FeeWei(fee_grt) == IF fee_grt < 0 THEN Zero ELSE AsF64(GrtTimes(fee_grt))

\* an entry of an hourly record, and an hourly record of the aggregated topic
Aggregation(signer, receiver, fee_grt) ==
  [signer |-> signer, receiver |-> receiver, fee_grt |-> fee_grt]

IndexerFeesHourly(timestamp, aggregations) ==
  [timestamp |-> timestamp, aggregations |-> aggregations]

\* an entry of a client query, and a client query record of the realtime topic
IndexerQuery(indexer, fee_grt, legacy_scalar) ==
  [indexer |-> indexer, fee_grt |-> fee_grt, legacy_scalar |-> legacy_scalar]

ClientQuery(timestamp, receipt_signer, indexer_queries) ==
  [timestamp |-> timestamp, receipt_signer |-> receipt_signer,
   indexer_queries |-> indexer_queries]

\* a record whose payload is not a message of its topic's type; Kafka stamps it
\* like any other
Undecodable(timestamp) == [timestamp |-> timestamp, undecodable |-> TRUE]

\* decode(payload) returns Ok
decodes(msg) == "undecodable" \notin DOMAIN msg

\* struct Update, with the record it came from kept for the claims: the topic,
\* the partition, the offset, the entry of the record, and the entry's signer
Update(timestamp, indexer, fee, origin, signer) ==
  [timestamp |-> timestamp, indexer |-> indexer, fee |-> fee,
   origin |-> origin, signer |-> signer]

\* the aggregated topic: not configured, or one partition with no record yet,
\* or one partition with a record that does not decode before the record of
\* hour 11, or two partitions that hold the hours 9 (before the window), 10
\* and 11, one record with entries of both signers
AggregatedTopics ==
  { None,
    Some(<< <<>> >>),
    Some(<< << Undecodable(Hr(10)),
               IndexerFeesHourly(Hr(11), <<Aggregation(1, 1, 1)>>) >> >>),
    Some(<< << IndexerFeesHourly(Hr(10), <<Aggregation(2, 1, 3), Aggregation(1, 2, 1)>>),
               IndexerFeesHourly(Hr(11), <<Aggregation(1, 1, 3)>>) >>,
            << IndexerFeesHourly(Hr(9), <<Aggregation(1, 2, 1)>>),
               IndexerFeesHourly(Hr(11), <<Aggregation(1, 1, 1)>>) >> >>) }

\* the realtime topic (one partition): records in the order of their offsets.
\* The first holds a record stamped in hour 11 after one stamped in hour 12;
\* the second is in timestamp order and holds a record from before the window,
\* one of an unauthorized signer and one that does not decode.
RealtimeTopics ==
  { << ClientQuery(Hr(11) + 10, 1, <<IndexerQuery(1, 1, FALSE)>>),
       ClientQuery(Hr(12) + 5, 1, <<IndexerQuery(1, 3, FALSE), IndexerQuery(2, 1, TRUE)>>),
       ClientQuery(Hr(11) + 20, 1, <<IndexerQuery(1, 1, FALSE)>>) >>,
    << ClientQuery(Hr(9) + 30, 1, <<IndexerQuery(1, 1, FALSE)>>),
       ClientQuery(Hr(12) + 2, 2, <<IndexerQuery(1, 1, FALSE)>>),
       Undecodable(Hr(12) + 3),
       ClientQuery(Hr(12) + 5, 1, <<IndexerQuery(2, 3, FALSE), IndexerQuery(1, 1, FALSE)>>) >> }

\* assign_partitions: the offset of the first record of the partition stamped
\* at or after the timestamp, the end of the partition if there is none
OffsetForTime(partition, timestamp) ==
  LET later == {i \in DOMAIN partition : partition[i].timestamp >= timestamp}
  IN  IF later = {} THEN Len(partition) + 1
      ELSE CHOOSE i \in later : \A j \in later : i <= j

\* latest_messages mapped to offsets: the offset of the latest record of every
\* partition that has one
latest_offsets(partitions) ==
  [p \in {q \in DOMAIN partitions : partitions[q] # <<>>} |-> Len(partitions[p])]

\* the updates the drain sends for an hourly record: one per entry of an
\* authorized signer
AggregatedUpdates(partition, offset, msg) ==
  LET entries == [i \in DOMAIN msg.aggregations |->
                    Update(msg.timestamp, msg.aggregations[i].receiver,
                           FeeWei(msg.aggregations[i].fee_grt),
                           <<"aggregated", partition, offset, i>>,
                           msg.aggregations[i].signer)]
  IN  SelectSeq(entries, LAMBDA u : contains(signers, u.signer))

\* the updates a realtime handler sends for a record: none if the payload does
\* not decode or the receipt signer is not authorized, else one per query that
\* is not legacy
RealtimeUpdates(offset, msg) ==
  IF ~decodes(msg) THEN <<>>
  ELSE IF ~contains(signers, msg.receipt_signer) THEN <<>>
  ELSE LET entries == [i \in DOMAIN msg.indexer_queries |->
                         Update(msg.timestamp, msg.indexer_queries[i].indexer,
                                FeeWei(msg.indexer_queries[i].fee_grt),
                                <<"realtime", 1, offset, i>>, msg.receipt_signer)]
       IN  SelectSeq(entries,
                     LAMBDA u : ~msg.indexer_queries[u.origin[4]].legacy_scalar)

\* DB::update accepting whatever the timestamp
in_window_always(timestamp, now) == TRUE

\* DB::update: an update is dropped if update.timestamp < now - self.window
in_window(timestamp, now) == ~(timestamp < now - WINDOW)

\* DB::update with the fee written over the bucket, not added to it
update_overwrite(db, u, now) ==
  IF ~in_window(u.timestamp, now) THEN db
  ELSE [r \in DOMAIN db \cup {u.indexer} |->
          IF r = u.indexer
          THEN [h \in (IF r \in DOMAIN db THEN DOMAIN db[r] ELSE {})
                         \cup {hourly_timestamp(u.timestamp)} |->
                  IF h = hourly_timestamp(u.timestamp) THEN u.fee ELSE db[r][h]]
          ELSE db[r]]

\* DB::update on db, the bucket map receiver -> (hour -> fee)
update(db, u, now) ==
  IF ~in_window(u.timestamp, now) THEN db
  ELSE LET entries == IF u.indexer \in DOMAIN db THEN db[u.indexer] ELSE EmptyMap
           hour == hourly_timestamp(u.timestamp)
           entry == Add(Get(entries, hour), u.fee)
       IN  [r \in DOMAIN db \cup {u.indexer} |->
              IF r = u.indexer
              THEN [h \in DOMAIN entries \cup {hour} |->
                      IF h = hour THEN entry ELSE entries[h]]
              ELSE db[r]]

\* entries.retain keeping the bucket of min_timestamp too
retained_from(t, min_timestamp) == t >= min_timestamp

\* entries.retain(|t, _| *t > min_timestamp)
retained(t, min_timestamp) == t > min_timestamp

\* DB::prune
prune(db, now) ==
  LET min_timestamp == hourly_timestamp(now - WINDOW)
      kept(r) == {t \in DOMAIN db[r] : retained(t, min_timestamp)}
  IN  [r \in {x \in DOMAIN db : kept(x) # {}} |-> [t \in kept(r) |-> db[r][t]]]

\* entries.values().sum()
RECURSIVE sum_values(_, _)
sum_values(entries, hours) ==
  IF hours = {} THEN Zero
  ELSE LET t == CHOOSE x \in hours : TRUE
       IN  Add(entries[t], sum_values(entries, hours \ {t}))

\* DB::snapshot
snapshot(db) == [r \in DOMAIN db |-> sum_values(db[r], DOMAIN db[r])]

\* Utc::now()
Now == Instants[clock]

\* track_receipts is called: the DB task is spawned with an empty map, and the
\* watch channel holds the default (empty) snapshot
InitAgg ==
  /\ agg_pc = "start"
  /\ aggregated_topic \in AggregatedTopics
  /\ realtime_topic \in RealtimeTopics
  /\ latest_aggregated_offsets = EmptyMap
  /\ latest_aggregated_timestamp = 0
  /\ position = EmptyMap
  /\ in_hand = None
  /\ realtime_offset = 0
  /\ handlers = <<>>
  /\ channel = <<>>
  /\ data = EmptyMap
  /\ last_snapshot = Instants[1]
  /\ clock = 1
  /\ owner_pc = "recv"
  /\ buffer = <<>>
  /\ batch_now = 0
  /\ message_count = 0
  /\ ingested = {}
  /\ ledger = {}
  /\ InitLadderIdle
  /\ InitReduceIdle
  /\ InitLoopIdle
  /\ InitQueryIdle
  /\ InitStartupIdle
  /\ InitBuildIdle
  /\ InitTimerIdle
  /\ InitRungIdle
  /\ InitRavsIdle

\* what an aggregator step leaves alone
AggIdle ==
  /\ UNCHANGED <<ladderVars, reduceVars, queryVars, startupVars, buildVars, timerVars, rungVars, ravsVars>>
  /\ UNCHANGED <<pc, ticks, signal, config_debts, active, receivers, escrow_accounts,
                 borrowed, adjustments, tx, latest_block, blocks>>
  /\ UNCHANGED <<sigterm, ctrl_c, errors, read_block, receipt_block, settled, targets>>
  /\ UNCHANGED <<aggregated_topic, realtime_topic>>

\* time passes
Advance ==
  /\ agg_pc # "idle"
  /\ clock < Len(Instants)
  /\ clock' = clock + 1
  /\ UNCHANGED <<agg_pc, latest_aggregated_offsets, latest_aggregated_timestamp, position,
                 in_hand, realtime_offset, handlers, channel, data, last_snapshot,
                 ingested, ledger, debts>>
  /\ UNCHANGED <<owner_pc, buffer, batch_now, message_count>>
  /\ AggIdle

\* start_timestamp is computed, and the consumer is assigned: to the aggregated
\* topic if one is configured, after the latest offset of each of its
\* partitions is recorded, else to the realtime topic. start_timestamp is a
\* number of seconds, and assign_partitions reads it as milliseconds.
Assign ==
  /\ agg_pc = "start"
  /\ LET start_timestamp == hourly_timestamp(Now - WINDOW)
     IN  IF aggregated_topic # None
         THEN LET partitions == Unwrap(aggregated_topic)
              IN  /\ latest_aggregated_offsets' = latest_offsets(partitions)
                  /\ position' =
                       [p \in DOMAIN partitions |->
                          OffsetForTime(partitions[p], AsKafkaMillis(start_timestamp))]
                  /\ agg_pc' = "drain"
                  /\ UNCHANGED realtime_offset
         ELSE /\ realtime_offset' =
                   OffsetForTime(realtime_topic, AsKafkaMillis(start_timestamp))
              /\ agg_pc' = "realtime"
              /\ UNCHANGED <<latest_aggregated_offsets, position>>
  /\ UNCHANGED <<latest_aggregated_timestamp, in_hand, handlers, channel, data,
                 last_snapshot, clock, ingested, ledger, debts>>
  /\ UNCHANGED <<owner_pc, buffer, batch_now, message_count>>
  /\ AggIdle

\* stream.next() of the drain yields the next record of some partition. If
\* its payload does not decode, the ? returns the error from track_receipts and
\* main returns it in turn: the program ends. Else the largest timestamp is
\* kept, and the updates of the record are built.
DrainRecv ==
  /\ agg_pc = "drain"
  /\ in_hand = None
  /\ \E p \in DOMAIN position :
       LET partition == Unwrap(aggregated_topic)[p]
           offset == position[p]
       IN  /\ offset <= Len(partition)
           /\ position' = [position EXCEPT ![p] = offset + 1]
           /\ IF ~decodes(partition[offset])
              THEN /\ agg_pc' = "failed"
                   /\ UNCHANGED <<latest_aggregated_timestamp, in_hand>>
              ELSE /\ latest_aggregated_timestamp' =
                        IF partition[offset].timestamp > latest_aggregated_timestamp
                        THEN partition[offset].timestamp ELSE latest_aggregated_timestamp
                   /\ in_hand' =
                        Some([partition |-> p, offset |-> offset,
                              updates |-> AggregatedUpdates(p, offset, partition[offset])])
                   /\ UNCHANGED agg_pc
  /\ UNCHANGED <<latest_aggregated_offsets, realtime_offset, handlers, channel,
                 data, last_snapshot, clock, ingested, ledger, debts>>
  /\ UNCHANGED <<owner_pc, buffer, batch_now, message_count>>
  /\ AggIdle

\* db.send(update).await of the drain completes: the channel has room
DrainSend ==
  /\ agg_pc = "drain"
  /\ in_hand # None
  /\ Unwrap(in_hand).updates # <<>>
  /\ Len(channel) < MaxChannel
  /\ channel' = Append(channel, Head(Unwrap(in_hand).updates))
  /\ in_hand' = Some([Unwrap(in_hand) EXCEPT !.updates = Tail(@)])
  /\ UNCHANGED <<agg_pc, latest_aggregated_offsets, latest_aggregated_timestamp, position,
                 realtime_offset, handlers, data, last_snapshot, clock, ingested,
                 ledger, debts>>
  /\ UNCHANGED <<owner_pc, buffer, batch_now, message_count>>
  /\ AggIdle

\* the end of the drain's loop body: a partition whose latest offset has been
\* reached is removed, and when none is left the consumer is unassigned and
\* then assigned to the realtime topic at latest_aggregated_timestamp + 1 hour
DrainNext ==
  /\ agg_pc = "drain"
  /\ in_hand # None
  /\ Unwrap(in_hand).updates = <<>>
  /\ in_hand' = None
  /\ LET partition == Unwrap(in_hand).partition
         offset == Unwrap(in_hand).offset
         left == [p \in DOMAIN latest_aggregated_offsets \ {partition} |->
                    latest_aggregated_offsets[p]]
     IN  IF partition \notin DOMAIN latest_aggregated_offsets
         THEN /\ agg_pc' = "panicked"
              /\ UNCHANGED <<latest_aggregated_offsets, realtime_offset>>
         ELSE IF latest_aggregated_offsets[partition] # offset
         THEN UNCHANGED <<agg_pc, latest_aggregated_offsets, realtime_offset>>
         ELSE /\ latest_aggregated_offsets' = left
              /\ IF DOMAIN left # {}
                 THEN UNCHANGED <<agg_pc, realtime_offset>>
                 ELSE LET realtime_start == latest_aggregated_timestamp + HOUR
                      IN  /\ realtime_offset' = OffsetForTime(realtime_topic, realtime_start)
                          /\ agg_pc' = "realtime"
  /\ UNCHANGED <<latest_aggregated_timestamp, position, handlers, channel, data,
                 last_snapshot, clock, ingested, ledger, debts>>
  /\ UNCHANGED <<owner_pc, buffer, batch_now, message_count>>
  /\ AggIdle

\* process_messages: the stream yields the next record of the realtime topic
\* while fewer than the limit of handlers are running; a handler with nothing
\* to send returns at once
RealtimePoll ==
  /\ agg_pc = "realtime"
  /\ realtime_offset <= Len(realtime_topic)
  /\ Len(handlers) < MaxInFlight
  /\ LET updates == RealtimeUpdates(realtime_offset, realtime_topic[realtime_offset])
     IN  handlers' = IF updates = <<>> THEN handlers ELSE Append(handlers, updates)
  /\ realtime_offset' = realtime_offset + 1
  /\ UNCHANGED <<agg_pc, latest_aggregated_offsets, latest_aggregated_timestamp, position,
                 in_hand, channel, data, last_snapshot, clock, ingested, ledger, debts>>
  /\ UNCHANGED <<owner_pc, buffer, batch_now, message_count>>
  /\ AggIdle

\* db.send(update).await of one of the running handlers completes
HandlerSend ==
  /\ Len(channel) < MaxChannel
  /\ \E h \in DOMAIN handlers :
       /\ channel' = Append(channel, Head(handlers[h]))
       /\ handlers' =
            IF Len(handlers[h]) > 1
            THEN [handlers EXCEPT ![h] = Tail(@)]
            ELSE SubSeq(handlers, 1, h - 1) \o SubSeq(handlers, h + 1, Len(handlers))
  /\ UNCHANGED <<agg_pc, latest_aggregated_offsets, latest_aggregated_timestamp, position,
                 in_hand, realtime_offset, data, last_snapshot, clock, ingested,
                 ledger, debts>>
  /\ UNCHANGED <<owner_pc, buffer, batch_now, message_count>>
  /\ AggIdle

\* the elements of a sequence, as a set
Range(seq) == {seq[i] : i \in DOMAIN seq}

\* the claim's words for an update that is too old when it is ingested
TooOld(timestamp, now) == timestamp < now - WINDOW

\* the claim's words for a bucket that pruning removes
Expired(hour_start, now) == hour_start <= hourly_timestamp(now - WINDOW)

\* the DB task's round begins: recv_many takes what the channel holds, up to
\* the buffer size, or returns with nothing once the channel is closed and
\* empty; now is read and the updates are counted
OwnerRecv ==
  /\ owner_pc = "recv"
  /\ agg_pc # "failed"
  /\ channel # <<>> \/ agg_pc = "lost"
  /\ LET n == IF Len(channel) < BufferSize THEN Len(channel) ELSE BufferSize
     IN  /\ buffer' = SubSeq(channel, 1, n)
         /\ channel' = SubSeq(channel, n + 1, Len(channel))
         /\ message_count' = message_count + n
  /\ batch_now' = Now
  /\ owner_pc' = "apply"
  /\ UNCHANGED <<agg_pc, latest_aggregated_offsets, latest_aggregated_timestamp, position,
                 in_hand, realtime_offset, handlers, clock, data, last_snapshot,
                 ingested, ledger, debts>>
  /\ AggIdle

\* db.update(update, now) for the next update of the buffer
OwnerApply ==
  /\ owner_pc = "apply"
  /\ agg_pc # "failed"
  /\ buffer # <<>>
  /\ data' = update(data, Head(buffer), batch_now)
  /\ buffer' = Tail(buffer)
  /\ ingested' = ingested \cup {[update |-> Head(buffer), now |-> batch_now]}
  /\ ledger' = IF TooOld(Head(buffer).timestamp, batch_now) THEN ledger
               ELSE ledger \cup {Head(buffer)}
  /\ UNCHANGED <<agg_pc, latest_aggregated_offsets, latest_aggregated_timestamp, position,
                 in_hand, realtime_offset, handlers, clock, channel, last_snapshot,
                 owner_pc, batch_now, message_count, debts>>
  /\ AggIdle

\* watch::Sender::send replacing the value without waiting for the borrows
send_unlocked(borrow) == TRUE

\* watch::Sender::send takes the write lock of the channel's value, which it
\* gets once no borrow() of a receiver is alive
send_locks(borrow) == borrow = None

\* the end of the round: if a second has passed since the latest snapshot the
\* map is pruned and its snapshot is sent on the watch channel
OwnerSnapshot ==
  /\ owner_pc = "apply"
  /\ agg_pc # "failed"
  /\ buffer = <<>>
  /\ IF batch_now - last_snapshot >= 1
     THEN /\ send_locks(borrowed)
          /\ data' = prune(data, batch_now)
          /\ debts' = snapshot(data')
          /\ last_snapshot' = batch_now
          /\ ledger' = {u \in ledger : ~Expired(hourly_timestamp(u.timestamp), batch_now)}
     ELSE UNCHANGED <<data, debts, last_snapshot, ledger>>
  /\ owner_pc' = "recv"
  /\ UNCHANGED <<agg_pc, latest_aggregated_offsets, latest_aggregated_timestamp, position,
                 in_hand, realtime_offset, handlers, clock, channel, buffer, batch_now,
                 message_count, ingested>>
  /\ AggIdle

\* the consumer task ends: a handler panics (Address::from_slice on a field
\* that is not 20 bytes long) and takes process_messages down with the
\* consumer, the running handlers and the only sender of the update channel
ConsumerLost ==
  /\ agg_pc = "realtime"
  /\ agg_pc' = "lost"
  /\ handlers' = <<>>
  /\ UNCHANGED <<latest_aggregated_offsets, latest_aggregated_timestamp, position,
                 in_hand, realtime_offset, channel, data, last_snapshot, clock,
                 ingested, ledger, debts>>
  /\ UNCHANGED <<owner_pc, buffer, batch_now, message_count>>
  /\ AggIdle

NextAgg ==
  \/ Advance
  \/ Assign
  \/ DrainRecv
  \/ DrainSend
  \/ DrainNext
  \/ RealtimePoll
  \/ HandlerSend
  \/ ConsumerLost
  \/ OwnerRecv
  \/ OwnerApply
  \/ OwnerSnapshot

SpecAgg == InitAgg /\ [][NextAgg]_vars

(***************************************************************************)
(* Claims about the debt aggregator.                                       *)
(***************************************************************************)
\* the sum of the fees of a set of updates
RECURSIVE SumFees(_)
SumFees(updates) ==
  IF updates = {} THEN Zero
  ELSE LET u == CHOOSE x \in updates : TRUE
       IN  Add(u.fee, SumFees(updates \ {u}))

\* the updates taken so far for a receiver that were not too old when taken
Fresh(receiver) ==
  {e.update : e \in {x \in ingested : /\ x.update.indexer = receiver
                                       /\ ~TooOld(x.update.timestamp, x.now)}}

\* an update of each topic has been taken that was too old when it was taken
BothPathsTooOld ==
  \A path \in {"aggregated", "realtime"} :
    \E e \in ingested : e.update.origin[1] = path /\ TooOld(e.update.timestamp, e.now)

\* C16: an update that is older than now - W when the DB task takes it is
\* discarded, whichever topic it came from: every bucket holds the fee of some
\* update of its hour that was not too old, and no bucket and no published
\* snapshot holds more than the fees of the updates that were not too old.
C16_OldDiscarded ==
  /\ \A r \in DOMAIN data : \A h \in DOMAIN data[r] :
       LET fresh == {u \in Fresh(r) : hourly_timestamp(u.timestamp) = h}
       IN  fresh # {} /\ Le(data[r][h], SumFees(fresh))
  /\ \A r \in DOMAIN debts : Fresh(r) # {} /\ Le(debts[r], SumFees(Fresh(r)))

\* updates of both topics were too old and dropped, next to others that count
C16_Witness ==
  /\ BothPathsTooOld
  /\ channel = <<>>
  /\ data # EmptyMap
  /\ debts = snapshot(data)

\* the bucket map of a set of updates, whatever the order they came in
BucketsOf(updates) ==
  [r \in {u.indexer : u \in updates} |->
     [h \in {hourly_timestamp(u.timestamp) : u \in {x \in updates : x.indexer = r}} |->
        SumFees({u \in updates : u.indexer = r /\ hourly_timestamp(u.timestamp) = h})]]

\* the sums per receiver of a set of updates
SumsOf(updates) ==
  [r \in {u.indexer : u \in updates} |-> SumFees({u \in updates : u.indexer = r})]

\* C17: aggregation is order-independent: in every interleaving of the drain,
\* the concurrent realtime handlers and the batches of the DB task, the bucket
\* map and the sums per receiver are those of the set of updates that count,
\* whatever the order the channel delivered them in.
C17_OrderIndependent ==
  /\ data = BucketsOf(ledger)
  /\ snapshot(data) = SumsOf(ledger)

\* two running handlers sent out of order: the update of the later record was
\* taken in an earlier batch, and both fell into the same receiver's buckets,
\* one of which also holds the fees of two partitions of the aggregated topic
C17_Witness ==
  /\ \E e1, e2 \in ingested :
       /\ e1.update.origin[1] = "realtime" /\ e2.update.origin[1] = "realtime"
       /\ e1.update.origin[3] > e2.update.origin[3]
       /\ e1.now < e2.now
       /\ e1.update.indexer = e2.update.indexer
       /\ {e1.update, e2.update} \subseteq ledger
  /\ \E u1, u2 \in ledger :
       /\ u1.origin[1] = "aggregated" /\ u2.origin[1] = "aggregated"
       /\ u1.origin[2] # u2.origin[2]
       /\ u1.indexer = u2.indexer
       /\ hourly_timestamp(u1.timestamp) = hourly_timestamp(u2.timestamp)

\* the entries of the hourly record the drain holds, as the topic has them
RecordInHand ==
  Unwrap(aggregated_topic)[Unwrap(in_hand).partition][Unwrap(in_hand).offset].aggregations

\* everything the aggregator holds that came from an update
Held ==
  Range(channel) \cup Range(buffer) \cup ledger \cup {e.update : e \in ingested}
    \cup UNION {Range(handlers[h]) : h \in DOMAIN handlers}
    \cup (IF in_hand = None THEN {} ELSE Range(Unwrap(in_hand).updates))

\* C18: a record of a signer outside the authorized set reaches no bucket and
\* no snapshot: no update is ever built from it, on either topic, and the
\* buckets hold only what the authorized signers' updates add up to. When the
\* drain takes an hourly record it builds one update for each entry of an
\* authorized signer and none for the others; a realtime record of an
\* unauthorized signer starts no handler.
C18_SignerFilter ==
  /\ [](\A u \in Held : u.signer \in signers)
  /\ [](data = BucketsOf({e.update : e \in {x \in ingested : x.update \in ledger
                                                        /\ x.update.signer \in signers}}))
  /\ [][(in_hand = None /\ in_hand' # None) =>
          /\ {u.origin[4] : u \in Range(Unwrap(in_hand').updates)}
               = {i \in DOMAIN RecordInHand' : RecordInHand'[i].signer \in signers}
          /\ Len(Unwrap(in_hand').updates) = Cardinality(Range(Unwrap(in_hand').updates))]_vars
  /\ [][(agg_pc = "realtime" /\ realtime_offset' = realtime_offset + 1
           /\ decodes(realtime_topic[realtime_offset])
           /\ realtime_topic[realtime_offset].receipt_signer \notin signers)
          => handlers' = handlers]_vars

\* the drain has gone past the hourly record that carries entries of both
\* signers and the realtime stream past a record of the unauthorized signer:
\* the authorized entry of the hourly record is in the buckets
C18_Witness ==
  /\ \E u \in ledger :
       /\ u.origin[1] = "aggregated"
       /\ \E a \in Range(Unwrap(aggregated_topic)[u.origin[2]][u.origin[3]].aggregations) :
            a.signer \notin signers
       /\ u.indexer \in DOMAIN data
  /\ agg_pc = "realtime"
  /\ \E i \in 1 .. Len(realtime_topic) :
       /\ decodes(realtime_topic[i])
       /\ realtime_topic[i].receipt_signer \notin signers
       /\ \E u \in ledger : u.origin[1] = "realtime" /\ u.origin[3] > i
  /\ handlers = <<>>
  /\ channel = <<>>

\* what the claim says of pruning a bucket map at an instant: pruning the
\* result again changes nothing; the buckets that are gone are exactly those
\* whose hour is at or before the hour of now - W; the receivers that are gone
\* are exactly those left with no bucket; and the buckets kept hold their value
PrunesAsClaimed(before, now) ==
  LET after == prune(before, now)
  IN  /\ prune(after, now) = after
      /\ DOMAIN after = {r \in DOMAIN before :
                           \E h \in DOMAIN before[r] : ~Expired(h, now)}
      /\ \A r \in DOMAIN after :
           /\ DOMAIN after[r] = {h \in DOMAIN before[r] : ~Expired(h, now)}
           /\ \A h \in DOMAIN after[r] : after[r][h] = before[r][h]

\* C19: pruning is idempotent and value-preserving: on every bucket map the
\* aggregator reaches and at every instant, prune applied twice gives what it
\* gives applied once, it removes exactly the buckets with hour_start at or
\* before the hour of now - W and the receivers left with no bucket, and it
\* leaves the value of every bucket it keeps; and the map the DB task is left
\* with after a round that pruned has no such bucket and no empty receiver.
C19_PruneIdempotent ==
  /\ [](\A i \in DOMAIN Instants : PrunesAsClaimed(data, Instants[i]))
  /\ [][last_snapshot' # last_snapshot =>
          /\ prune(data', last_snapshot') = data'
          /\ \A r \in DOMAIN data' :
               /\ DOMAIN data'[r] # {}
               /\ \A h \in DOMAIN data'[r] : ~Expired(h, last_snapshot')]_vars

\* a round of the DB task has pruned: an update that was accepted is gone with
\* its bucket and its receiver, while another receiver kept a bucket
C19_Witness ==
  /\ last_snapshot > Instants[1]
  /\ \E e \in ingested :
       /\ ~TooOld(e.update.timestamp, e.now)
       /\ e.update \notin ledger
       /\ e.update.indexer \notin DOMAIN data
  /\ data # EmptyMap
  /\ data = prune(data, last_snapshot)

\* the aggregated topic is configured and the drain has handed over
HandedOver == aggregated_topic # None /\ agg_pc = "realtime"

\* the origins of the entries of the aggregated topic signed by an authorized signer
AuthorizedEntries ==
  LET partitions == Unwrap(aggregated_topic)
  IN  UNION {UNION {{<<"aggregated", p, o, i>> :
                       i \in {j \in DOMAIN partitions[p][o].aggregations :
                                partitions[p][o].aggregations[j].signer \in signers}} :
                    o \in DOMAIN partitions[p]} : p \in DOMAIN partitions}

\* C20: with the aggregated topic configured, once the drain has handed over,
\* every entry of the aggregated records has been sent to the DB task, every
\* realtime update that counts is stamped at latest_aggregated_timestamp + 1
\* hour or later, and no hour holds fees of both topics.
C20_NoDoubleCount ==
  HandedOver =>
    /\ AuthorizedEntries \subseteq {u.origin : u \in Range(channel) \cup Range(buffer)}
                                     \cup {e.update.origin : e \in ingested}
    /\ \A u \in ledger :
         u.origin[1] = "realtime" => u.timestamp >= latest_aggregated_timestamp + HOUR
    /\ \A u1, u2 \in ledger :
         ~ /\ u1.origin[1] = "aggregated"
           /\ u2.origin[1] = "realtime"
           /\ hourly_timestamp(u1.timestamp) = hourly_timestamp(u2.timestamp)

\* the aggregator under its scheduling: the runtime polls every task that can
\* make progress, so the drain, the handlers and the DB task take the steps
\* they have; the clock is not required to move
SpecAggLive ==
  /\ InitAgg
  /\ [][NextAgg]_vars
  /\ WF_vars(Assign)
  /\ WF_vars(DrainRecv)
  /\ WF_vars(DrainSend)
  /\ WF_vars(DrainNext)
  /\ WF_vars(RealtimePoll)
  /\ WF_vars(HandlerSend)
  /\ WF_vars(OwnerRecv)
  /\ WF_vars(OwnerApply)
  /\ WF_vars(OwnerSnapshot)

\* C21: the drain of the aggregated topic terminates, whatever the topic
\* holds: once the consumer is assigned to the aggregated topic, the drain
\* ends and realtime consumption begins.
C21_DrainTerminates == (agg_pc = "drain") ~> (agg_pc = "realtime")

\* the records of both topics that do not decode, by origin
UndecodableOrigins ==
  {<<"realtime", 1, o>> : o \in {i \in DOMAIN realtime_topic : ~decodes(realtime_topic[i])}}
    \cup (IF aggregated_topic = None THEN {}
          ELSE UNION {{<<"aggregated", p, o>> :
                         o \in {i \in DOMAIN Unwrap(aggregated_topic)[p] :
                                  ~decodes(Unwrap(aggregated_topic)[p][i])}} :
                      p \in DOMAIN Unwrap(aggregated_topic)})

\* C22: a record that does not decode never stops the aggregator, in the drain
\* as in realtime consumption: the aggregator does not fail, no update comes
\* from such a record, and the message counter counts the updates taken by the
\* DB task only.
C22_DecodeFailureSkipped ==
  /\ agg_pc # "failed"
  /\ \A u \in Held : <<u.origin[1], u.origin[2], u.origin[3]>> \notin UndecodableOrigins
  /\ message_count = Cardinality(ingested) + Len(buffer)

\* the consumer task has ended and the DB task has applied everything that
\* was sent before it ended
LostAndDrained == agg_pc = "lost" /\ channel = <<>> /\ buffer = <<>>

\* C23: after the consumer task has ended the snapshot channel stops
\* advancing: once what was sent before the loss is applied, the DB task
\* publishes nothing more (its latest publication stays the latest), and the
\* value readers see stays the same.
C23_SnapshotFrozen ==
  [][LostAndDrained => (debts' = debts /\ last_snapshot' = last_snapshot)]_vars

(***************************************************************************)
(* The loop's reading of the debts channel, receiver by receiver, next to  *)
(* the DB task that writes it: the aggregator consumes the realtime topic  *)
(* while the loop, which has its receivers, borrows the channel's value,   *)
(* runs the filter_map over the receivers and drops the borrow.            *)
(***************************************************************************)
InitView ==
  /\ pc = "adjust"
  /\ ticks = 0
  /\ signal = FALSE
  /\ config_debts = EmptyMap
  /\ debts = EmptyMap
  /\ active = Addresses
  /\ receivers = Addresses
  /\ escrow_accounts = EmptyMap
  /\ borrowed = None
  /\ adjustments = <<>>
  /\ tx = None
  /\ latest_block = 0
  /\ blocks = <<EmptyMap>>
  /\ sigterm = FALSE
  /\ ctrl_c = FALSE
  /\ errors = <<>>
  /\ read_block = 0
  /\ receipt_block = 0
  /\ settled = None
  /\ targets = EmptyMap
  /\ agg_pc = "start"
  /\ aggregated_topic = None
  /\ realtime_topic \in RealtimeTopics
  /\ latest_aggregated_offsets = EmptyMap
  /\ latest_aggregated_timestamp = 0
  /\ position = EmptyMap
  /\ in_hand = None
  /\ realtime_offset = 0
  /\ handlers = <<>>
  /\ channel = <<>>
  /\ data = EmptyMap
  /\ last_snapshot = Instants[1]
  /\ clock = 1
  /\ owner_pc = "recv"
  /\ buffer = <<>>
  /\ batch_now = 0
  /\ message_count = 0
  /\ ingested = {}
  /\ ledger = {}
  /\ InitLadderIdle
  /\ InitReduceIdle
  /\ InitQueryIdle
  /\ InitStartupIdle
  /\ InitBuildIdle
  /\ InitTimerIdle
  /\ InitRungIdle
  /\ InitRavsIdle

\* what a step of the filter_map leaves alone
ViewIdle ==
  /\ UNCHANGED <<signal, config_debts, debts, active, receivers, escrow_accounts,
                 tx, latest_block, blocks>>
  /\ UNCHANGED <<sigterm, ctrl_c, errors, read_block, receipt_block, settled>>
  /\ Idle

\* let debts = debts.borrow(): the read lock of the channel's value is taken
AdjustBorrow ==
  /\ pc = "adjust"
  /\ ticks < MaxTicks
  /\ borrowed' = Some(debts)
  /\ targets' = EmptyMap
  /\ adjustments' = <<>>
  /\ pc' = "filter_map"
  /\ UNCHANGED ticks
  /\ ViewIdle

\* the closure of the filter_map runs on the next receiver the HashSet hands
\* out: it reads the receiver's debt through the borrow, and emits the
\* adjustment if it is not zero
AdjustVisit ==
  /\ pc = "filter_map"
  /\ \E r \in receivers \ DOMAIN targets :
       /\ targets' = [x \in DOMAIN targets \cup {r} |->
                        IF x = r THEN next_balance(debt_of(debts, config_debts, r))
                        ELSE targets[x]]
       /\ adjustments' =
            IF adjustment_of(debts, config_debts, escrow_accounts, r) = Zero
            THEN adjustments
            ELSE Append(adjustments,
                        <<r, adjustment_of(debts, config_debts, escrow_accounts, r)>>)
  /\ UNCHANGED <<pc, ticks, borrowed>>
  /\ ViewIdle

\* collect() and drop(debts): the lock is released; the next tick comes
AdjustDrop ==
  /\ pc = "filter_map"
  /\ DOMAIN targets = receivers
  /\ borrowed' = None
  /\ ticks' = ticks + 1
  /\ pc' = "adjust"
  /\ UNCHANGED <<targets, adjustments>>
  /\ ViewIdle

NextView ==
  \/ Advance
  \/ Assign
  \/ RealtimePoll
  \/ HandlerSend
  \/ OwnerRecv
  \/ OwnerApply
  \/ OwnerSnapshot
  \/ AdjustBorrow
  \/ AdjustVisit
  \/ AdjustDrop

SpecView == InitView /\ [][NextView]_vars

\* C24: a reader never sees a torn view. The value of the debts channel
\* changes only when the DB task has no update of its round left to apply, and
\* is then, receiver by receiver, the sum of the receiver's buckets; and while
\* the loop runs its filter_map the value stays the one it borrowed, so every
\* target and every adjustment of the tick comes from that one snapshot, also
\* when the DB task has a snapshot to publish during the tick.
C24_NoTornView ==
  /\ [][debts' # debts =>
          /\ buffer = <<>>
          /\ debts' = snapshot(data')
          /\ debts' = SumsOf(ledger')]_vars
  /\ [](pc = "filter_map" =>
          /\ Unwrap(borrowed) = debts
          /\ \A r \in DOMAIN targets :
               targets[r] = next_balance(debt_of(Unwrap(borrowed), config_debts, r))
          /\ \A i \in DOMAIN adjustments :
               /\ adjustments[i][1] \in DOMAIN targets
               /\ adjustments[i][2] =
                    adjustment_of(Unwrap(borrowed), config_debts, escrow_accounts,
                                  adjustments[i][1]))

\* the loop is between two receivers of its filter_map, on a snapshot that
\* holds debts, while the DB task has finished a round and has a different
\* snapshot to publish
C24_Witness ==
  /\ pc = "filter_map"
  /\ Cardinality(DOMAIN targets) = 1
  /\ debts # EmptyMap
  /\ owner_pc = "apply"
  /\ buffer = <<>>
  /\ batch_now - last_snapshot >= 1
  /\ snapshot(prune(data, batch_now)) # debts

(***************************************************************************)
(* Client::paginated_query of src/subgraph.rs, against a server whose      *)
(* chain grows and reorganizes while the query runs. An entity is its id,  *)
(* a number from 1 up; the cursor "" is 0. A block is known by its hash.   *)
(***************************************************************************)
\* the entities a block may hold
RowSets == {{}, {1, 2}, {1, 2, 3}, {2, 3, 4}}

\* a block pointer, and a block of the server
BlockPointer(number, hash) == [number |-> number, hash |-> hash]

Block(hash, rows) == [hash |-> hash, rows |-> rows]

\* where: { id_gt: $last } letting the row of the cursor through again
id_gte(rows, last) == {id \in rows : id >= last}

\* where: { id_gt: $last }
id_gt(rows, last) == {id \in rows : id > last}

\* orderBy: id, orderDirection: asc, first: $first on a set of ids
RECURSIVE first_asc(_, _)
first_asc(ids, first) ==
  IF ids = {} \/ first = 0 THEN <<>>
  ELSE LET least == CHOOSE x \in ids : \A y \in ids : x <= y
       IN  <<least>> \o first_asc(ids \ {least}, first - 1)

\* the page the server answers with at a block
page(rows, last, first) == first_asc(id_gt(rows, last), first)

\* the numbers of the blocks of the chain that carry a hash
numbers_of(hash) == {n \in DOMAIN chain : chain[n].hash = hash}

\* a query begins: Client::new has latest_block = 0, and a client that has
\* queried before holds the number of the block it read then
InitQuery ==
  /\ query_pc = "request"
  /\ last_id = 0
  /\ query_block = None
  /\ results = <<>>
  /\ client_latest_block \in {0, 1}
  /\ chain \in {<<Block(1, rows)>> : rows \in RowSets}
  /\ hashes = 1
  /\ restarts = 0
  /\ InitLadderIdle
  /\ InitReduceIdle
  /\ InitLoopIdle
  /\ InitAggIdle
  /\ InitStartupIdle
  /\ InitBuildIdle
  /\ InitTimerIdle
  /\ InitRungIdle
  /\ InitRavsIdle

\* what a step of the query or of its server leaves alone
QueryIdle == UNCHANGED <<ladderVars, reduceVars, loopVars, aggVars, startupVars, buildVars, timerVars, rungVars, ravsVars>>

\* the server indexes one more block
ServerGrows ==
  /\ query_pc = "request"
  /\ hashes < MaxHashes
  /\ hashes' = hashes + 1
  /\ \E rows \in RowSets : chain' = Append(chain, Block(hashes', rows))
  /\ UNCHANGED <<query_pc, last_id, query_block, results, client_latest_block, restarts>>
  /\ QueryIdle

\* the chain reorganizes: the server replaces its latest block by another
ServerReorgs ==
  /\ query_pc = "request"
  /\ hashes < MaxHashes
  /\ hashes' = hashes + 1
  /\ \E rows \in RowSets : chain' = [chain EXCEPT ![Len(chain)] = Block(hashes', rows)]
  /\ UNCHANGED <<query_pc, last_id, query_block, results, client_latest_block, restarts>>
  /\ QueryIdle

\* a page request is answered with data. The server reads at the pinned block
\* or, with no pin, at a block of its choice numbered number_gte or more. An
\* empty page ends the query: latest_block becomes the number of the pin, if
\* there is one. Else the cursor moves to the last row, the block is pinned
\* and the rows are pushed.
PageOk ==
  /\ query_pc = "request"
  /\ \E n \in IF query_block = None
              THEN {m \in DOMAIN chain : m >= client_latest_block}
              ELSE numbers_of(Unwrap(query_block).hash) :
       LET rows == page(chain[n].rows, last_id, BatchSize)
       IN  IF rows = <<>>
           THEN /\ query_pc' = "done"
                /\ client_latest_block' =
                     IF query_block # None THEN Unwrap(query_block).number
                     ELSE client_latest_block
                /\ UNCHANGED <<last_id, query_block, results>>
           ELSE /\ last_id' = rows[Len(rows)]
                /\ query_block' = Some(BlockPointer(n, chain[n].hash))
                /\ results' = results \o [i \in DOMAIN rows |->
                                            [id |-> rows[i], hash |-> chain[n].hash]]
                /\ UNCHANGED <<query_pc, client_latest_block>>
  /\ UNCHANGED <<chain, hashes, restarts>>
  /\ QueryIdle

\* a page request pinned to a block the server no longer has is answered with
\* "no block with that hash found": the cursor and the pin are reset and the
\* loop continues
PageReorg ==
  /\ query_pc = "request"
  /\ query_block # None
  /\ numbers_of(Unwrap(query_block).hash) = {}
  /\ last_id' = 0
  /\ query_block' = None
  /\ restarts' = restarts + 1
  /\ UNCHANGED <<query_pc, results, client_latest_block, chain, hashes>>
  /\ QueryIdle

\* a page request fails (the transport, the status, or a GraphQL error other
\* than the reorg's): paginated_query returns Err
PageErr ==
  /\ query_pc = "request"
  /\ query_pc' = "failed"
  /\ UNCHANGED <<last_id, query_block, results, client_latest_block, chain, hashes,
                 restarts>>
  /\ QueryIdle

NextQuery ==
  \/ ServerGrows
  \/ ServerReorgs
  \/ PageOk
  \/ PageReorg
  \/ PageErr

SpecQuery == InitQuery /\ [][NextQuery]_vars

(***************************************************************************)
(* Claims about the paginated query.                                       *)
(***************************************************************************)
\* no entity is in the rows twice
EachOnce(rows) == \A i, j \in DOMAIN rows : i # j => rows[i].id # rows[j].id

\* every row was read at the block pinned now, and there is no row without a pin
AtPinnedBlock(rows) ==
  IF query_block = None THEN rows = <<>>
  ELSE \A i \in DOMAIN rows : rows[i].hash = Unwrap(query_block).hash

\* C25: on the error "no block with that hash found" the query restarts from
\* scratch: the cursor is "" and the pin is dropped, the rows of the abandoned
\* attempt are discarded, and the result of the query holds each entity at
\* most once and only rows read at the finally pinned block.
C25_ReorgRestart ==
  /\ [][restarts' # restarts =>
          (last_id' = 0 /\ query_block' = None /\ results' = <<>>)]_vars
  /\ [](query_pc = "done" => (EachOnce(results) /\ AtPinnedBlock(results)))

Responses(rows) ==
  IF rows = {} THEN {"done", "empty_response", "failed"} ELSE {"done", "failed"}

\* active_indexers: paginated_query(..).await.map_err(|err| anyhow!(err))?
active_indexers(response) == IF response = "done" THEN "Ok" ELSE "Err"

\* escrow_accounts: Ok(accounts) and Err(EmptyResponse) are Ok, the rest is Err
escrow_accounts_of(response) ==
  IF response \in {"done", "empty_response"} THEN "Ok" ELSE "Err"

\* the network subgraph's chain: the indexers with an allocation, block by block
NetworkChains ==
  {<<Block(1, first), Block(2, second)>> : first, second \in SUBSET Addresses}

InitSubgraphs ==
  /\ pc = "select"
  /\ ticks = 0
  /\ signal = FALSE
  /\ config_debts = EmptyMap
  /\ debts = EmptyMap
  /\ active = {}
  /\ receivers = {}
  /\ escrow_accounts = EmptyMap
  /\ borrowed = None
  /\ adjustments = <<>>
  /\ tx = None
  /\ latest_block = 0
  /\ blocks \in {<<b>> : b \in Genesis}
  /\ sigterm = FALSE
  /\ ctrl_c = FALSE
  /\ errors = <<>>
  /\ read_block = 0
  /\ receipt_block = 0
  /\ settled = None
  /\ targets = EmptyMap
  /\ query_pc = "request"
  /\ last_id = 0
  /\ query_block = None
  /\ results = <<>>
  /\ client_latest_block = 0
  /\ chain \in NetworkChains
  /\ hashes = 2
  /\ restarts = 0
  /\ InitLadderIdle
  /\ InitReduceIdle
  /\ InitAggIdle
  /\ InitStartupIdle
  /\ InitBuildIdle
  /\ InitTimerIdle
  /\ InitRungIdle
  /\ InitRavsIdle

\* what a subgraph read leaves alone
SubgraphsIdle ==
  UNCHANGED <<ladderVars, reduceVars, aggVars, startupVars, buildVars, timerVars, rungVars, ravsVars, last_id, query_block,
              client_latest_block, chain, hashes, restarts>>

\* network_subgraph.paginated_query(..) completes: the client has read the
\* indexers of a block of the network subgraph, or has failed
NetworkResponds ==
  /\ pc = "active_indexers"
  /\ query_pc = "request"
  /\ \E n \in DOMAIN chain :
       /\ query_pc' \in Responses(chain[n].rows)
       /\ results' = IF query_pc' = "done"
                     THEN LET ids == first_asc(chain[n].rows, Cardinality(chain[n].rows))
                          IN  [i \in DOMAIN ids |-> [id |-> ids[i], hash |-> chain[n].hash]]
                     ELSE <<>>
  /\ UNCHANGED <<pc, ticks, signal, config_debts, debts, active, receivers,
                 escrow_accounts, borrowed, adjustments, tx, latest_block, blocks>>
  /\ UNCHANGED <<sigterm, ctrl_c, errors, read_block, receipt_block, settled, targets>>
  /\ SubgraphsIdle

\* active_indexers(..) returns, and main matches on it: Ok(receivers) is the
\* tick's receivers, Err is logged and the tick is left by continue
ActiveIndexers ==
  /\ pc = "active_indexers"
  /\ query_pc \in {"done", "empty_response", "failed"}
  /\ IF active_indexers(query_pc) = "Ok"
     THEN /\ active' = {results[i].id : i \in DOMAIN results}
          /\ receivers' = active'
          /\ pc' = "escrow_accounts"
          /\ UNCHANGED <<escrow_accounts, borrowed, adjustments, tx, errors, read_block>>
     ELSE /\ Continue
          /\ errors' = Append(errors, "active_indexers_err")
  /\ query_pc' = "request"
  /\ results' = <<>>
  /\ UNCHANGED <<ticks, signal, config_debts, debts, latest_block, blocks>>
  /\ UNCHANGED <<sigterm, ctrl_c, receipt_block, settled, targets>>
  /\ SubgraphsIdle

\* escrow_subgraph.paginated_query(..) completes: the client has read the
\* accounts of a block at or after its hint, or has failed
EscrowResponds ==
  /\ pc = "escrow_accounts"
  /\ query_pc = "request"
  /\ \E n \in DOMAIN blocks :
       /\ n >= number_gte(latest_block)
       /\ read_block' = n
       /\ query_pc' \in Responses(DOMAIN blocks[n])
  /\ UNCHANGED <<pc, ticks, signal, config_debts, debts, active, receivers,
                 escrow_accounts, borrowed, adjustments, tx, latest_block, blocks>>
  /\ UNCHANGED <<sigterm, ctrl_c, errors, receipt_block, settled, targets, results>>
  /\ SubgraphsIdle

\* escrow_accounts(..) returns, and main matches on it: Ok(escrow_accounts)
\* extends the receivers by its keys, Err is logged and the tick is left
EscrowAccounts ==
  /\ pc = "escrow_accounts"
  /\ query_pc \in {"done", "empty_response", "failed"}
  /\ IF escrow_accounts_of(query_pc) = "Ok"
     THEN /\ escrow_accounts' = IF query_pc = "done" THEN blocks[read_block] ELSE EmptyMap
          /\ receivers' = extend(receivers, DOMAIN escrow_accounts')
          /\ latest_block' = IF query_pc = "done" /\ DOMAIN blocks[read_block] # {}
                             THEN read_block ELSE latest_block
          /\ pc' = "adjust"
          /\ UNCHANGED <<active, borrowed, adjustments, tx, errors, read_block>>
     ELSE /\ Continue
          /\ errors' = Append(errors, "escrow_accounts_err")
          /\ UNCHANGED latest_block
  /\ query_pc' = "request"
  /\ UNCHANGED <<ticks, signal, config_debts, debts, blocks>>
  /\ UNCHANGED <<sigterm, ctrl_c, receipt_block, settled, targets, results>>
  /\ SubgraphsIdle

NextSubgraphs ==
  \/ Tick
  \/ NetworkResponds
  \/ ActiveIndexers
  \/ EscrowResponds
  \/ EscrowAccounts
  \/ Adjust
  \/ DepositMany
  \/ NoDeposit
  \/ SendOk
  \/ SendErr
  \/ ReceiptOk
  \/ ReceiptErr

SpecSubgraphs == InitSubgraphs /\ [][NextSubgraphs]_vars

(***************************************************************************)
(* Claims about the subgraph reads.                                        *)
(***************************************************************************)
\* the client has answered a read of a view that has no row, without failing
EmptyAnswer ==
  /\ query_pc \in {"done", "empty_response"}
  /\ \/ pc = "active_indexers" /\ results = <<>>
     \/ pc = "escrow_accounts" /\ DOMAIN blocks[read_block] = {}

\* C27: an empty response is not an error for any subgraph view: an empty
\* result of the active receivers and an empty result of the escrow accounts
\* both become the empty set or map, nothing is logged as an error, and the
\* tick goes on to its next step instead of being skipped.
C27_EmptyNotAnError ==
  [][EmptyAnswer =>
       /\ errors' = errors
       /\ pc = "active_indexers" => (pc' = "escrow_accounts" /\ active' = {})
       /\ pc = "escrow_accounts" => (pc' = "adjust" /\ escrow_accounts' = EmptyMap)]_vars

(***************************************************************************)
(* Claims about the deposit transaction.                                   *)
(***************************************************************************)
\* the escrow balances at the chain's latest block
Balances(chain_blocks) == chain_blocks[Len(chain_blocks)]

\* C28: the deposit call is atomic. After a call, either every listed
\* receiver's escrow balance has grown by exactly its amount in one transaction
\* and the call has returned that transaction's block number, or the call has
\* returned an error; a part of the list is never applied.
C28_DepositManyAtomic ==
  [][(pc = "receipt" /\ pc' # "receipt") =>
       /\ Balances(blocks') \in {Balances(blocks), Credited(Balances(blocks), Unwrap(tx))}
       /\ errors' = errors =>
            /\ Len(blocks') = Len(blocks) + 1
            /\ Balances(blocks') = Credited(Balances(blocks), Unwrap(tx))
            /\ receipt_block' = Len(blocks')]_vars

(***************************************************************************)
(* The start of main (src/main.rs, lines 91-165): the signers are          *)
(* authorized, the allowance is set and the receipts are tracked, and then *)
(* the loop begins. Every step that fails ends the program: main returns   *)
(* the error.                                                              *)
(***************************************************************************)
\* the lists config.signers may hold, a key being known by its address
SignerLists == UNION {[1 .. n -> AnySigner] : n \in 0 .. MaxSigners}

\* let authorized = .. with no signer taken as authorized
authorized_never(set, signer) == FALSE

\* let authorized = authorized_signers.contains(&signer.address().0.into())
authorized(set, signer) == contains(set, signer)

InitStartup ==
  /\ startup_pc = "authorize_signers"
  /\ authorize_signers \in BOOLEAN
  /\ config_signers \in SignerLists
  /\ subgraph_signers \in SUBSET AnySigner
  /\ chain_signers \in SUBSET AnySigner
  /\ authorized_signers = None
  /\ signer_i = 0
  /\ sent = <<>>
  /\ watched = <<>>
  /\ InitLadderIdle
  /\ InitReduceIdle
  /\ InitLoopIdle
  /\ InitAggIdle
  /\ InitQueryIdle
  /\ InitBuildIdle
  /\ InitTimerIdle
  /\ InitRungIdle
  /\ InitRavsIdle

\* what a step of the start of main leaves alone
StartupIdle ==
  /\ UNCHANGED <<ladderVars, reduceVars, loopVars, aggVars, queryVars, buildVars, timerVars, rungVars, ravsVars>>
  /\ UNCHANGED <<authorize_signers, config_signers, subgraph_signers>>

\* the signer the for loop is at
Signer == config_signers[signer_i]

\* config.authorize_signers is false: the block is skipped
AuthorizationOff ==
  /\ startup_pc = "authorize_signers"
  /\ ~authorize_signers
  /\ startup_pc' = "allowance"
  /\ UNCHANGED <<chain_signers, authorized_signers, signer_i, sent, watched>>
  /\ StartupIdle

\* authorized_signers(..) returns Ok: the signers the subgraph knows
FetchAuthorized ==
  /\ startup_pc = "authorize_signers"
  /\ authorize_signers
  /\ authorized_signers' = Some(subgraph_signers)
  /\ signer_i' = 1
  /\ startup_pc' = "for"
  /\ UNCHANGED <<chain_signers, sent, watched>>
  /\ StartupIdle

\* authorized_signers(..) returns Err: main returns "fetch authorized signers"
FetchAuthorizedErr ==
  /\ startup_pc = "authorize_signers"
  /\ authorize_signers
  /\ startup_pc' = "failed"
  /\ UNCHANGED <<chain_signers, authorized_signers, signer_i, sent, watched>>
  /\ StartupIdle

\* for signer in &signers: the signer is authorized, continue
AlreadyAuthorized ==
  /\ startup_pc = "for"
  /\ signer_i <= Len(config_signers)
  /\ authorized(Unwrap(authorized_signers), Signer)
  /\ signer_i' = signer_i + 1
  /\ UNCHANGED <<startup_pc, chain_signers, authorized_signers, sent, watched>>
  /\ StartupIdle

\* escrow.authorizeSigner(..).send() returns Ok(pending). The provider fills
\* the gas of the transaction by estimating the call first, and the contract
\* rejects a signer that is authorized already: only a call that passes at the
\* contract as it is now is sent.
AuthorizeSend ==
  /\ startup_pc = "for"
  /\ signer_i <= Len(config_signers)
  /\ ~authorized(Unwrap(authorized_signers), Signer)
  /\ Signer \notin chain_signers
  /\ sent' = Append(sent, Signer)
  /\ startup_pc' = "watch"
  /\ UNCHANGED <<chain_signers, authorized_signers, signer_i, watched>>
  /\ StartupIdle

\* the proof cannot be signed, or send() returns Err: main returns the error
AuthorizeSendErr ==
  /\ startup_pc = "for"
  /\ signer_i <= Len(config_signers)
  /\ ~authorized(Unwrap(authorized_signers), Signer)
  /\ startup_pc' = "failed"
  /\ UNCHANGED <<chain_signers, authorized_signers, signer_i, sent, watched>>
  /\ StartupIdle

\* watch() returns Ok: the transaction is confirmed, and the loop goes on
AuthorizeWatch ==
  /\ startup_pc = "watch"
  /\ chain_signers' = chain_signers \cup {Signer}
  /\ watched' = Append(watched, Signer)
  /\ signer_i' = signer_i + 1
  /\ startup_pc' = "for"
  /\ UNCHANGED <<authorized_signers, sent>>
  /\ StartupIdle

\* watch() returns Err: main returns "authorize signer"; the transaction may
\* be mined all the same
AuthorizeWatchErr ==
  /\ startup_pc = "watch"
  /\ chain_signers' \in {chain_signers, chain_signers \cup {Signer}}
  /\ startup_pc' = "failed"
  /\ UNCHANGED <<authorized_signers, signer_i, sent, watched>>
  /\ StartupIdle

\* the for loop has visited every signer
AuthorizeDone ==
  /\ startup_pc = "for"
  /\ signer_i > Len(config_signers)
  /\ startup_pc' = "allowance"
  /\ UNCHANGED <<chain_signers, authorized_signers, signer_i, sent, watched>>
  /\ StartupIdle

\* the allowance is read and approved, track_receipts starts the consumer, the
\* interval and the signal stream are made: main is at the select! of its loop
Bootstrap ==
  /\ startup_pc = "allowance"
  /\ startup_pc' = "select"
  /\ UNCHANGED <<chain_signers, authorized_signers, signer_i, sent, watched>>
  /\ StartupIdle

\* one of these steps fails: main returns the error
BootstrapErr ==
  /\ startup_pc = "allowance"
  /\ startup_pc' = "failed"
  /\ UNCHANGED <<chain_signers, authorized_signers, signer_i, sent, watched>>
  /\ StartupIdle

\* the first interval.tick() completes
FirstTick ==
  /\ startup_pc = "select"
  /\ startup_pc' = "loop"
  /\ UNCHANGED <<chain_signers, authorized_signers, signer_i, sent, watched>>
  /\ StartupIdle

NextStartup ==
  \/ AuthorizationOff
  \/ FetchAuthorized
  \/ FetchAuthorizedErr
  \/ AlreadyAuthorized
  \/ AuthorizeSend
  \/ AuthorizeSendErr
  \/ AuthorizeWatch
  \/ AuthorizeWatchErr
  \/ AuthorizeDone
  \/ Bootstrap
  \/ BootstrapErr
  \/ FirstTick

SpecStartup == InitStartup /\ [][NextStartup]_vars

(***************************************************************************)
(* Claims about the start of main.                                         *)
(***************************************************************************)
\* the signers a start has to authorize: the configured ones the subgraph does
\* not list, when the authorization is enabled
ToAuthorize ==
  IF authorize_signers THEN Range(config_signers) \ subgraph_signers ELSE {}

Wide(q, r) == <<q, r>>

\* u128::MAX = 2^128 - 1
U128_MAX == Wide(4, -1)

\* a + b is more than u128::MAX
overflows(a, b) == Lt(U128_MAX, Add(a, b))

\* u128::wrapping_add: a + b modulo 2^128
wrapping_add(a, b) ==
  IF overflows(a, b) THEN Wide(a[1] + b[1] - 4, a[2] + b[2]) ELSE Add(a, b)

\* u128::saturating_add
saturating_add(a, b) == IF overflows(a, b) THEN U128_MAX ELSE Add(a, b)

\* a + b on u128 as the build computes it: None stands for the panic
add(checks, a, b) ==
  IF overflows(a, b) /\ checks THEN None ELSE Some(wrapping_add(a, b))

\* entries.values().sum(): the values are added to 0 in the order of their
\* hours; None stands for the panic
RECURSIVE sum(_, _, _, _)
sum(checks, acc, entries, hours) ==
  IF hours = {} THEN Some(acc)
  ELSE LET t == CHOOSE x \in hours : \A y \in hours : x <= y
           next == add(checks, acc, entries[t])
       IN  IF next = None THEN None
           ELSE sum(checks, Unwrap(next), entries, hours \ {t})

\* the fees of the run, as (fee_grt * 1e18) as u128 makes them: 3 wei for a
\* fee_grt of 2^-58, and u128::MAX for any fee_grt of 2^128 / 1e18 or more,
\* where the cast saturates
WideFees == {Wide(0, 3), U128_MAX}

\* the updates of the run
WideUpdates ==
  {[timestamp |-> t, indexer |-> 1, fee |-> f] : t \in {Hr(11), Hr(12)}, f \in WideFees}

InitBuckets ==
  /\ overflow_checks \in BOOLEAN
  /\ InitTimerIdle
  /\ InitRungIdle
  /\ InitRavsIdle
  /\ agg_pc = "idle"
  /\ aggregated_topic = None
  /\ realtime_topic = <<>>
  /\ latest_aggregated_offsets = EmptyMap
  /\ latest_aggregated_timestamp = 0
  /\ position = EmptyMap
  /\ in_hand = None
  /\ realtime_offset = 0
  /\ handlers = <<>>
  /\ channel = <<>>
  /\ data = EmptyMap
  /\ last_snapshot = 0
  /\ clock = 1
  /\ owner_pc = "apply"
  /\ buffer \in UNION {[1 .. n -> WideUpdates] : n \in 1 .. MaxUpdates}
  /\ batch_now = Now0
  /\ message_count = 0
  /\ ingested = {}
  /\ ledger = {}
  /\ InitLadderIdle
  /\ InitReduceIdle
  /\ InitLoopIdle
  /\ InitQueryIdle
  /\ InitStartupIdle

\* what a step of the bucket arithmetic leaves alone
BucketsIdle ==
  /\ UNCHANGED <<agg_pc, latest_aggregated_offsets, latest_aggregated_timestamp, position,
                 in_hand, realtime_offset, handlers, clock, channel, last_snapshot,
                 batch_now, message_count, ingested, ledger>>
  /\ UNCHANGED <<ladderVars, reduceVars, queryVars, startupVars, buildVars, timerVars, rungVars, ravsVars>>
  /\ UNCHANGED <<pc, ticks, signal, config_debts, active, receivers, escrow_accounts,
                 borrowed, adjustments, tx, latest_block, blocks>>
  /\ UNCHANGED <<sigterm, ctrl_c, errors, read_block, receipt_block, settled, targets>>
  /\ UNCHANGED <<aggregated_topic, realtime_topic>>

\* the bucket of an update, before the update
Entry(db, u) ==
  IF u.indexer \in DOMAIN db
  THEN Get(db[u.indexer], hourly_timestamp(u.timestamp))
  ELSE Zero

\* the map with the bucket of an update set to an amount
WithEntry(db, u, amount) ==
  LET entries == IF u.indexer \in DOMAIN db THEN db[u.indexer] ELSE EmptyMap
      hour == hourly_timestamp(u.timestamp)
  IN  [r \in DOMAIN db \cup {u.indexer} |->
         IF r = u.indexer
         THEN [h \in DOMAIN entries \cup {hour} |->
                 IF h = hour THEN amount ELSE entries[h]]
         ELSE db[r]]

\* db.update(update, now): *entry += update.fee
BucketUpdate ==
  /\ owner_pc = "apply"
  /\ buffer # <<>>
  /\ LET u == Head(buffer)
         entry == add(overflow_checks, Entry(data, u), u.fee)
     IN  IF in_window(u.timestamp, batch_now) /\ entry = None
         THEN owner_pc' = "panicked" /\ UNCHANGED <<data, buffer>>
         ELSE /\ data' = IF ~in_window(u.timestamp, batch_now) THEN data
                         ELSE WithEntry(data, u, Unwrap(entry))
              /\ buffer' = Tail(buffer)
              /\ UNCHANGED owner_pc
  /\ UNCHANGED debts
  /\ BucketsIdle

\* db.snapshot(), sent on the watch channel
BucketSnapshot ==
  /\ owner_pc = "apply"
  /\ LET sums == [r \in DOMAIN data |-> sum(overflow_checks, Zero, data[r], DOMAIN data[r])]
     IN  IF \E r \in DOMAIN data : sums[r] = None
         THEN owner_pc' = "panicked" /\ UNCHANGED debts
         ELSE debts' = [r \in DOMAIN data |-> Unwrap(sums[r])] /\ UNCHANGED owner_pc
  /\ UNCHANGED <<data, buffer>>
  /\ BucketsIdle

NextBuckets == BucketUpdate \/ BucketSnapshot

SpecBuckets == InitBuckets /\ [][NextBuckets]_vars

(***************************************************************************)
(* Claims about the bucket arithmetic.                                     *)
(***************************************************************************)
\* the sum of the buckets of a receiver, clamped at u128::MAX
RECURSIVE saturating_sum(_, _)
saturating_sum(entries, hours) ==
  IF hours = {} THEN Zero
  ELSE LET t == CHOOSE x \in hours : TRUE
       IN  saturating_add(entries[t], saturating_sum(entries, hours \ {t}))

\* C30: bucket arithmetic saturates. Where adding a fee to an hour bucket, or
\* summing the buckets of a receiver into a snapshot, would exceed the u128
\* maximum, the value is the maximum: it is never a smaller value got by
\* wrapping around, and the owner task never aborts.
C30_Saturates ==
  /\ [](owner_pc # "panicked")
  /\ [][buffer' # buffer =>
          Entry(data', Head(buffer))
            = saturating_add(Entry(data, Head(buffer)), Head(buffer).fee)]_vars
  /\ [][debts' # debts =>
          \A r \in DOMAIN data : debts'[r] = saturating_sum(data[r], DOMAIN data[r])]_vars

(***************************************************************************)
(* The timer of the loop (src/main.rs, lines 162-170): an interval of      *)
(* config.update_interval_seconds with MissedTickBehavior::Skip, polled by *)
(* the select! at the top of the loop. Time is in whole seconds from the   *)
(* creation of the interval, whose first deadline is its creation.         *)
(***************************************************************************)
\* the periods of the run
Periods == {1, 2, 3}

\* MissedTickBehavior::Burst: the next deadline is one period after the last
next_timeout_burst(timeout, now, p) == timeout + p

\* MissedTickBehavior::Skip: the next deadline is the next multiple of the
\* period from the missed deadline that is after now
next_timeout(timeout, now, p) == now + p - ((now - timeout) % p)

\* Interval::tick completing at now with the deadline timeout: a deadline met
\* in time is followed by the next one, a missed one by next_timeout
next_deadline(timeout, now, p) ==
  IF now > timeout THEN next_timeout(timeout, now, p) ELSE timeout + p

InitTimer ==
  /\ timer_pc = "select"
  /\ period \in Periods
  /\ instant = 0
  /\ deadline = 0
  /\ tick_count = 0
  /\ fired_at = 0
  /\ due_at = 0
  /\ InitLadderIdle
  /\ InitReduceIdle
  /\ InitLoopIdle
  /\ InitAggIdle
  /\ InitQueryIdle
  /\ InitStartupIdle
  /\ InitBuildIdle
  /\ InitRungIdle
  /\ InitRavsIdle

\* what a step of the timer leaves alone
TimerIdle ==
  UNCHANGED <<ladderVars, reduceVars, loopVars, aggVars, queryVars, startupVars,
              buildVars, rungVars, ravsVars, period>>

\* a second passes. The loop at select! does not let time pass while the tick
\* is due: a ready branch is taken when the select! is polled.
SecondPasses ==
  /\ instant < MaxInstant
  /\ timer_pc = "select" => instant < deadline
  /\ instant' = instant + 1
  /\ UNCHANGED <<timer_pc, deadline, tick_count, fired_at, due_at>>
  /\ TimerIdle

\* select!: interval.tick() completes, and the body of the loop begins
TickFires ==
  /\ timer_pc = "select"
  /\ instant >= deadline
  /\ deadline' = next_deadline(deadline, instant, period)
  /\ tick_count' = tick_count + 1
  /\ fired_at' = instant
  /\ due_at' = deadline
  /\ timer_pc' = "tick"
  /\ UNCHANGED instant
  /\ TimerIdle

\* the body of the loop ends, by continue or at its end: back to select!
TickEnds ==
  /\ timer_pc = "tick"
  /\ timer_pc' = "select"
  /\ UNCHANGED <<instant, deadline, tick_count, fired_at, due_at>>
  /\ TimerIdle

NextTimer == SecondPasses \/ TickFires \/ TickEnds

SpecTimer == InitTimer /\ [][NextTimer]_vars

(***************************************************************************)
(* Claims about the timer.                                                 *)
(***************************************************************************)
\* the first instant of the schedule after t: the schedule is one tick at the
\* start and one every period from then on
NextScheduled(t) == ((t \div period) + 1) * period

\* C31: the loop ticks once at once at its start and then once per period.
\* When a tick has run over one or more scheduled instants, one tick fires at
\* once after it and the other missed ticks are dropped: the next tick is at
\* the next scheduled instant after now. Ticks never queue up: no two fire at
\* one instant, and there are never more ticks than scheduled instants.
C31_SkipMissedTicks ==
  /\ [](tick_count = 0 => instant = 0)
  /\ [][tick_count' # tick_count =>
          /\ tick_count' = tick_count + 1
          /\ deadline <= instant
          /\ deadline' = NextScheduled(instant)]_vars
  /\ [][instant' # instant => ~(timer_pc = "select" /\ deadline <= instant)]_vars
  /\ [](tick_count <= (instant \div period) + 1)
  /\ [](tick_count > 0 => (deadline > fired_at /\ deadline <= fired_at + period))

\* a tick has fired two periods or more after it was due, off the schedule:
\* it is the only one to fire for the instants missed
C31_Witness ==
  /\ timer_pc = "tick"
  /\ period = 2
  /\ fired_at = instant
  /\ fired_at - due_at = 5
  /\ tick_count = 2
  /\ deadline = fired_at + 1

(***************************************************************************)
(* The batch-cap reduction as a function of its input.                     *)
(***************************************************************************)
RECURSIVE reduce_loop(_, _, _)
\* the visits from receiver i on, until the sum is MAX_BATCH or more
reduce_loop(desired, out, i) ==
  LET visited == ReduceVisit(desired, out, i)
  IN  IF ~Lt(Total(visited), MAX_BATCH) THEN visited
      ELSE reduce_loop(desired, visited, ReduceAfter(desired, i))

\* reduce(adjustments)
reduce(list) ==
  LET desired == SortByAddress(list)
  IN  reduce_loop(desired, ReduceInit(desired), 1)

\* the list back to front
Backwards(list) == [i \in DOMAIN list |-> list[Len(list) + 1 - i]]

\* adjustment lists that hold the (receiver, desired) pairs of a list in
\* another order: every order of up to three pairs, the list back to front
\* beyond that; a crowd is taken in the order it came in only
Reorderings(list) ==
  IF Len(list) <= 3 THEN Orderings(Range(list))
  ELSE IF Len(list) <= MaxListed THEN {list, Backwards(list)}
  ELSE {list}

\* C32: the batch-cap reduction is deterministic: runs on adjustment lists that
\* hold the same (receiver, desired) pairs in different orders return the same
\* output, the receivers being visited in ascending order of address.
C32_OrderIndependent ==
  /\ reduce_pc # "call" =>
       /\ IsSorted(reduce_desired)
       /\ Len(reduce_desired) = Len(reduce_input)
       /\ Range(reduce_desired) = Range(reduce_input)
  /\ Reduced => \A list \in Reorderings(reduce_input) : reduce(list) = reduce_out

\* the reduction of a list that came in out of order has returned, one
\* receiver cut below its desired amount
C32_Witness ==
  /\ Reduced
  /\ Len(reduce_input) = 3
  /\ ~IsSorted(reduce_input)
  /\ Cardinality(Reorderings(reduce_input)) = 6
  /\ \E i \in DOMAIN reduce_out :
       Lt(MIN_DEPOSIT, reduce_out[i][2]) /\ Lt(reduce_out[i][2], reduce_desired[i][2])

(***************************************************************************)
(* The loop of next_balance step by step, over the whole of u128 and u32.  *)
(* A number is written in binary, as the set of the positions of its one   *)
(* bits, so that 2^32 - 1 and 2^128 - 1 are within reach.                   *)
(***************************************************************************)
\* a small natural in binary
BinOf(n) == {b \in 0 .. 30 : (n \div Pow2(b)) % 2 = 1}

\* a * 2^k
BinShift(a, k) == {b + k : b \in a}

\* the position of the leading one of a number that is not 0
BinTop(a) == CHOOSE p \in a : \A q \in a : q <= p

\* a + 2^p: the ones from p up to the first zero are cleared, the zero is set
BinCarry(a, p) ==
  LET zero == CHOOSE q \in p .. (BinTop(a \cup {p}) + 1) :
                q \notin a /\ \A r \in p .. (q - 1) : r \in a
  IN  (a \ (p .. zero)) \cup {zero}

\* a + b: position i takes a carry when a lower position holds a one in both
\* numbers and every position between holds a one in either
BinAdd(a, b) ==
  IF a = {} THEN b
  ELSE IF b = {} THEN a
  ELSE LET both   == a \cap b
           either == a \cup b
           carried(i) == \E j \in both : j < i /\ \A k \in (j + 1) .. (i - 1) : k \in either
       IN  {i \in 0 .. (BinTop(either) + 1) :
              ((i \in a) # (i \in b)) # carried(i)}

RECURSIVE BinMul(_, _)
\* a * b, a shifted copy of a for each one of b
BinMul(a, b) ==
  IF b = {} THEN {}
  ELSE LET p == CHOOSE q \in b : TRUE
       IN  BinAdd(BinShift(a, p), BinMul(a, b \ {p}))

BinLt(a, b) == a # b /\ BinTop((a \ b) \cup (b \ a)) \in b

\* a - 1, of a number that is not 0
BinPred(a) ==
  LET low == CHOOSE p \in a : \A q \in a : p <= q
  IN  (a \ {low}) \cup (0 .. (low - 1))

\* GRT = 10^18 wei
BinGRT == BinMul(BinOf(1000000000), BinOf(1000000000))

\* u32::MAX
BinU32Max == 0 .. 31

\* u128::MAX
BinU128Max == 0 .. 127

\* x as f64, of an integer: the 53 leading bits, rounded to nearest, ties to even
as_f64(a) ==
  IF a = {} THEN {}
  ELSE LET ulp  == BinTop(a) - 52
           kept == {b \in a : b >= ulp}
           up   == /\ (ulp - 1) \in a
                   /\ (ulp \in a \/ \E b \in a : b < ulp - 1)
       IN  IF up THEN BinCarry(kept, ulp) ELSE kept

\* the double 0.6 is 5404319552844595 * 2^-53 (0x3FE3333333333333)
POINT_SIX == {52} \cup UNION {{4 * k, 4 * k + 1} : k \in 0 .. 12}

\* x * 0.6 in f64, of a double x >= 2^53: the product rounded to 53 bits
times_point_six(x) == {b - 53 : b \in as_f64(BinMul(x, POINT_SIX))}

\* (next_round as u128 * GRT) as f64 * 0.6
threshold(round) == times_point_six(as_f64(BinMul(BinGRT, round)))

\* u32::saturating_mul
saturating_mul(n, m) ==
  LET product == BinMul(n, m)
  IN  IF \E b \in product : b > 31 THEN BinU32Max ELSE product

\* the values next_round takes: 2, 4, ..., 2^31 and u32::MAX
Rounds == {{k} : k \in 1 .. 31} \cup {BinU32Max}

\* debts: none, the largest, 2^32 GRT, and each threshold and the wei below it
RungDebts ==
  {{}, BinU128Max, BinShift(BinGRT, 32)}
    \cup {threshold(r) : r \in Rounds}
    \cup {BinPred(threshold(r)) : r \in Rounds}

\* let mut next_round = (MIN_DEPOSIT / GRT) as u32
InitRung ==
  /\ rung_pc = "loop"
  /\ rung_debt \in RungDebts
  /\ rung_round = BinOf(2)
  /\ InitLadderIdle
  /\ InitReduceIdle
  /\ InitLoopIdle
  /\ InitAggIdle
  /\ InitQueryIdle
  /\ InitStartupIdle
  /\ InitBuildIdle
  /\ InitTimerIdle
  /\ InitRavsIdle

RungIdle ==
  UNCHANGED <<ladderVars, reduceVars, loopVars, aggVars, queryVars, startupVars,
              buildVars, timerVars, ravsVars, rung_debt>>

\* (debt as f64) >= ((next_round as u128 * GRT) as f64 * 0.6)
while_condition == ~BinLt(as_f64(rung_debt), threshold(rung_round))

\* one turn of the while: next_round = next_round.saturating_mul(2)
RungDouble ==
  /\ rung_pc = "loop"
  /\ while_condition
  /\ rung_round' = saturating_mul(rung_round, BinOf(2))
  /\ UNCHANGED rung_pc
  /\ RungIdle

\* the while ends: next_round as u128 * GRT is returned
RungReturn ==
  /\ rung_pc = "loop"
  /\ ~while_condition
  /\ rung_pc' = "return"
  /\ UNCHANGED rung_round
  /\ RungIdle

NextRung == RungDouble \/ RungReturn

SpecRung == InitRung /\ [][NextRung]_vars

RungReturned == rung_pc = "return"

\* the while is about to take one more turn
RungTurns == rung_pc = "loop" /\ while_condition

\* C33: next_balance terminates for every u128 debt, the debts at or above
\* 0.6 times the largest rung (where the rung counter saturates) included, and
\* when it returns the debt is strictly below 0.6 times the returned target.
\* The while ends when every turn it takes raises next_round: the debt is
\* fixed, and a turn that leaves next_round as it was is taken again for ever.
C33_Terminates ==
  /\ RungTurns => saturating_mul(rung_round, BinOf(2)) # rung_round
  /\ RungReturned =>
       BinLt(BinMul(rung_debt, BinOf(5)), BinMul(BinMul(BinGRT, rung_round), BinOf(3)))

(***************************************************************************)
(* The DB task while time passes: the aggregator under its scheduling,     *)
(* with a clock that moves on.                                             *)
(***************************************************************************)
SpecAggTimed == SpecAggLive /\ WF_vars(Advance)

\* the bucket map holds what the published snapshot does not show
Unpublished == debts # snapshot(data)

\* a second or more has passed since the latest snapshot
SnapshotDue == Now - last_snapshot >= 1

\* C34: every update accepted into the bucket map is eventually reflected in a
\* published snapshot, within about a second, also when no further message
\* arrives on the update channel: once a snapshot is due, what the map holds
\* is published (unless the aggregator has failed and the program ends).
C34_EventuallyPublished ==
  (Unpublished /\ SnapshotDue) ~> (~Unpublished \/ agg_pc = "failed")

\* the bucket map holds fees in a bucket that has left the window
ExpiredInMap ==
  \E r \in DOMAIN data : \E h \in DOMAIN data[r] :
    Expired(h, Now) /\ Lt(Zero, data[r][h])

\* the snapshot readers see is the sum of a map with such a bucket
ExpiredVisible == ExpiredInMap /\ debts = snapshot(data)

\* C35: the debt a reader sees respects the rolling window: once a bucket's
\* hour_start is at or before the hour of now - W, its fees eventually leave the
\* snapshot visible to the loop, also when the stream is idle: once a snapshot
\* is due the bucket is pruned and a snapshot without it published (unless the
\* aggregator has failed and the program ends).
C35_WindowRespected ==
  (ExpiredVisible /\ SnapshotDue) ~> (~ExpiredInMap \/ agg_pc = "failed")

(***************************************************************************)
(* The drain of the aggregated topic while the topic is written to: hourly *)
(* records are appended to its partitions after the latest offsets were    *)
(* recorded, and the stream yields them as it yields the others.           *)
(***************************************************************************)
\* a record is appended to a partition of the aggregated topic
Produce ==
  /\ agg_pc = "drain"
  /\ \E p \in DOMAIN Unwrap(aggregated_topic) :
       /\ Len(Unwrap(aggregated_topic)[p]) < MaxRecords
       /\ aggregated_topic' =
            Some([Unwrap(aggregated_topic) EXCEPT
                    ![p] = Append(@, IndexerFeesHourly(Hr(11), <<Aggregation(1, 1, 1)>>))])
  /\ UNCHANGED <<ladderVars, reduceVars, loopVars, queryVars, startupVars, buildVars,
                 timerVars, rungVars, ravsVars>>
  /\ UNCHANGED <<agg_pc, realtime_topic, latest_aggregated_offsets,
                 latest_aggregated_timestamp, position, in_hand, realtime_offset,
                 handlers, channel, data, last_snapshot, clock, owner_pc, buffer,
                 batch_now, message_count, ingested, ledger>>

NextDrain == NextAgg \/ Produce

SpecDrain == InitAgg /\ [][NextDrain]_vars

\* C36: during the drain of the aggregated topic a record that arrives on a
\* partition whose latest offset has already been reached, or on a partition
\* the probe of the latest offsets did not report, never aborts the drain: the
\* end-of-drain test of every record the drain reads is made without a panic.
C36_DrainNeverAborts == agg_pc # "panicked"

(***************************************************************************)
(* The loop as a state machine: Idle (at select!), Ticking (the queries,   *)
(* the adjustment list and its total) and Deposit (send and the wait for   *)
(* the receipt).                                                           *)
(***************************************************************************)
LoopIdle == pc = "select"

LoopTicking == pc \in {"active_indexers", "escrow_accounts", "adjust", "total"}

LoopDeposit == pc \in {"send", "receipt"}

\* C37: ticks never overlap: the loop goes Idle -> Ticking -> Deposit -> Idle
\* and holds at most one deposit transaction at any time, which it holds
\* exactly in Deposit; Deposit is entered only from Ticking, with an adjustment
\* list that is not empty; and a tick starts only from Idle, after the deposit
\* of the tick before has succeeded, failed or timed out.
C37_TicksNeverOverlap ==
  /\ [](tx # None <=> LoopDeposit)
  /\ [][/\ (LoopIdle /\ ~LoopIdle') => (pc' = "active_indexers" \/ pc' = "exit")
        /\ (LoopTicking /\ ~LoopTicking') => (LoopIdle' \/ pc' = "send")
        /\ (LoopDeposit /\ ~LoopDeposit') => LoopIdle'
        /\ (LoopTicking' /\ ~LoopTicking) => (LoopIdle /\ tx = None)
        /\ (LoopDeposit' /\ ~LoopDeposit) =>
             /\ pc = "total"
             /\ adjustments # <<>>
             /\ tx = None
             /\ tx' = Some(adjustments)
        /\ tx # None => (tx' = tx \/ (tx' = None /\ LoopIdle'))]_vars

\* the second tick waits for the receipt of its deposit, the deposit of the
\* first tick mined
C37_Witness ==
  /\ ticks = 2
  /\ pc = "receipt"
  /\ tx # None
  /\ Len(blocks) > 1

(***************************************************************************)
(* The RAV tracker, ravs::process_messages of kafka.rs: the records of the *)
(* gateway_ravs topic are handled by concurrent handlers, which keep for   *)
(* each receiver the largest value seen in the value of a watch channel.   *)
(***************************************************************************)
\* a record of the topic that parses, and one that does not
RavRecord(signer, receiver, value) ==
  [parsed |-> TRUE, signer |-> signer, receiver |-> receiver, value |-> value]

RavUnparsed == [parsed |-> FALSE, signer |-> 0, receiver |-> 0, value |-> 0]

RavRecords ==
  {RavRecord(s, r, v) : s \in AnySigner, r \in {1, 2}, v \in {1, 2}} \cup {RavUnparsed}

\* watch::channel(Default::default()), the consumer assigned from the start of
\* the topic
InitRavs ==
  /\ ravs_topic \in [1 .. MaxRavs -> RavRecords]
  /\ ravs_offset = 1
  /\ ravs_handlers = {}
  /\ ravs_map = << >>
  /\ ravs_version = 0
  /\ ravs_done = {}
  /\ InitLadderIdle
  /\ InitReduceIdle
  /\ InitLoopIdle
  /\ InitAggIdle
  /\ InitQueryIdle
  /\ InitStartupIdle
  /\ InitBuildIdle
  /\ InitTimerIdle
  /\ InitRungIdle

RavsIdle ==
  UNCHANGED <<ladderVars, reduceVars, loopVars, aggVars, queryVars, startupVars,
              buildVars, timerVars, rungVars, ravs_topic>>

\* for_each_concurrent(16, ..): the stream yields the next record while fewer
\* than the limit of handlers are running
RavsPoll ==
  /\ ravs_offset \in DOMAIN ravs_topic
  /\ Cardinality(ravs_handlers) < MaxInFlight
  /\ ravs_handlers' = ravs_handlers \cup {ravs_offset}
  /\ ravs_offset' = ravs_offset + 1
  /\ UNCHANGED <<ravs_map, ravs_version, ravs_done>>
  /\ RavsIdle

\* entry.insert(record.value)
entry_insert(map, record) ==
  [r \in DOMAIN map \cup {record.receiver} |->
     IF r = record.receiver THEN record.value ELSE map[r]]

\* a closure that inserts whatever the entry holds
modified_always(map, record) == TRUE

\* what the closure of send_if_modified returns: the entry is vacant, or holds
\* less than record.value
modified(map, record) ==
  record.receiver \notin DOMAIN map \/ map[record.receiver] < record.value

\* one of the running handlers runs: a record that does not parse or whose
\* signer is not authorized is dropped; else send_if_modified changes the map
\* and notifies the readers if the closure returns true
RavsHandle ==
  \E o \in ravs_handlers :
    LET record == ravs_topic[o]
    IN  /\ ravs_handlers' = ravs_handlers \ {o}
        /\ ravs_done' = ravs_done \cup {o}
        /\ IF record.parsed /\ contains(signers, record.signer)
                            /\ modified(ravs_map, record)
           THEN /\ ravs_map' = entry_insert(ravs_map, record)
                /\ ravs_version' = ravs_version + 1
           ELSE UNCHANGED <<ravs_map, ravs_version>>
        /\ UNCHANGED ravs_offset
        /\ RavsIdle

NextRavs == RavsPoll \/ RavsHandle

SpecRavs == InitRavs /\ [][NextRavs]_vars

\* the offsets, among a set, of the records of authorized signers
RavsAuthorized(offsets) ==
  {o \in offsets : ravs_topic[o].parsed /\ ravs_topic[o].signer \in signers}

\* receiver -> the largest value of its records of authorized signers at the offsets
RavsMax(offsets) ==
  LET counted == RavsAuthorized(offsets)
      values(r) == {ravs_topic[o].value : o \in {q \in counted : ravs_topic[q].receiver = r}}
  IN  [r \in {ravs_topic[o].receiver : o \in counted} |->
         CHOOSE v \in values(r) : \A w \in values(r) : w <= v]

\* every record of the topic has been handled
RavsAllDone == ravs_done = DOMAIN ravs_topic

\* C38: in the RAV tracker the published value of each receiver is the largest
\* value of the records of authorized signers handled so far; it never
\* decreases; a record whose value is not larger than the current one leaves
\* the map as it is and notifies no reader (readers are notified exactly when
\* the map changes); and the result is the same for every interleaving of the
\* concurrent handlers.
C38_RavsMax ==
  /\ [](ravs_map = RavsMax(ravs_done))
  /\ [](RavsAllDone => ravs_map = RavsMax(DOMAIN ravs_topic))
  /\ [][/\ \A r \in DOMAIN ravs_map :
             r \in DOMAIN ravs_map' /\ ravs_map'[r] >= ravs_map[r]
        /\ (ravs_version' # ravs_version) <=> (ravs_map' # ravs_map)
        /\ \A o \in ravs_done' \ ravs_done :
             (/\ ravs_topic[o].receiver \in DOMAIN ravs_map
              /\ ravs_topic[o].value <= ravs_map[ravs_topic[o].receiver])
               => (ravs_map' = ravs_map /\ ravs_version' = ravs_version)]_vars

\* every record is handled: two records of an authorized signer for one
\* receiver, the larger value first in the topic, and the readers were
\* notified once
C38_Witness ==
  /\ RavsAllDone
  /\ ravs_version = 1
  /\ \E o1, o2 \in RavsAuthorized(ravs_done) :
       /\ o1 < o2
       /\ ravs_topic[o1].receiver = ravs_topic[o2].receiver
       /\ ravs_topic[o1].value > ravs_topic[o2].value

====
